---- MODULE Spec2Model ----
(***************************************************************************)
(* Worktree lock coordinator of wtx.                                       *)
(*                                                                         *)
(* Part one models the file lock of src/unnamed/part_009: lockWorktree,    *)
(* isWorktreeAvailable, the heartbeat toucher and Release, run by several  *)
(* OS processes that share one lock directory.  Every system call of       *)
(* lockWorktree is one step, so that the interleavings of competing        *)
(* processes are those the filesystem allows.                              *)
(*                                                                         *)
(* Time is discrete.  A lock file carries its age (now - mtime), which     *)
(* saturates at StaleAfter because the code only compares it with that     *)
(* threshold.  Time passes only while every running process is blocked     *)
(* (in the selection prompt, in waitForInterrupt) and no ticker is due;    *)
(* a process stopped by a job-control signal lets time pass freely.        *)
(*                                                                         *)
(* Part two models the clients of the LockManager: the selection in the    *)
(* UI (Status, AcquireWorktreeLock), main.run and the Runner, which starts *)
(* the agent in a tmux pane or as a child process and binds the lock to    *)
(* it.  The LockManager itself (Acquire, IsAvailable, RebindPID, the       *)
(* liveness oracle and the owner-id codec) follows its specification.      *)
(*                                                                         *)
(* Part three models the worktree pool of src/unnamed/part_007:            *)
(* nextWorktreePath, the steps of CreateWorktree around the slot lock, and *)
(* Status with its check for worktrees whose directory is missing.         *)
(*                                                                         *)
(* Part four applies the owner-id codec and the liveness oracle to owner   *)
(* ids, pids and tmux states of every kind.  Part five models the lock     *)
(* path: realPath and worktreeLockPath over paths that name one worktree   *)
(* in different ways, and file system calls that fail.                     *)
(***************************************************************************)
EXTENDS Integers, Sequences, FiniteSets, TLC

\* ---------------------------------------------------------------- bounds
NumProcs == 3
MaxCrashes == 1
MaxSuspends == 1
NumPanes == 1
NumCallers == 2
\* the scan of nextWorktreePath stops before slot SlotLimit (the code's limit
\* is 10000; the model scans the same way over fewer slots)
SlotLimit == 4

\* ------------------------------------------------------ program constants
StaleAfter == 10
TouchEvery == 2

Procs == 1..NumProcs

\* the wtx UI processes of part two are the first NumCallers process ids
Callers == 1..NumCallers

\* Paths are sequences of their components.
\* the single repository root of the model
RepoRoot == <<"home", "repo">>

\* filepath.Dir and filepath.Base of a path with at least two components
filepathDir(path) == SubSeq(path, 1, Len(path) - 1)
filepathBase(path) == path[Len(path)]

\* worktreeRoot in nextWorktreePath: filepath.Join(parent, base + ".wt")
worktreeRoot(repoRoot) ==
  Append(filepathDir(repoRoot), filepathBase(repoRoot) \o ".wt")

\* candidate in nextWorktreePath: filepath.Join(worktreeRoot, "wt.<i>")
SlotPath(repoRoot, i) == Append(worktreeRoot(repoRoot), "wt." \o ToString(i))

\* the slot numbers the scan visits
Slots == 1..(SlotLimit - 1)

Worktrees == {SlotPath(RepoRoot, i) : i \in Slots}

\* Strings are sequences of characters.
\* owner_id written by buildOwnerID: "<user>@<host>"
buildOwnerID == <<"u", "@", "h">>

\* tmux ids: sessions "$1" and "$9", windows "@2" and "@5" (both of "$1")
SessionIDs == {<<"$", "1">>, <<"$", "9">>}
WindowIDs == {<<"@", "2">>, <<"@", "5">>}
SessionOfWindow(win) == <<"$", "1">>

\* pids of the processes that tmux starts in new panes
PanePids == (NumProcs + 1)..(NumProcs + NumPanes)

NoLock == [Path |-> <<>>, WorktreePath |-> <<>>, RepoRoot |-> <<>>]

VARIABLES
  pool,      \* worktrees that git lists for the repository
  file,      \* lock file per lock path: [exists, ino, data]; ino names the
             \* process that created the file or renamed it into place
  age,       \* now - mtime of the lock file, saturating at StaleAfter
  tmp,       \* the file at lockPath + ".tmp": [exists, data]
  pc,        \* position of each process in run / acquireWorktree / lockWorktree
  want,      \* the worktree a process selected in the prompt
  tpc,       \* position of the toucher goroutine of each process
  timer,     \* time until the toucher's ticker fires next
  stopCh,    \* TRUE once stopCh has been closed
  susp,      \* "never", "stopped" (SIGSTOP), "resumed" (SIGCONT)
  reclaimed, \* history: a stale lock of the worktree was taken over by rename
  sessions,  \* tmux sessions that exist
  windows,   \* tmux windows that exist
  procTable, \* pids the OS process table contains
  handle,    \* the *WorktreeLock a wtx process holds, or NoLock
  pane,      \* pid of the pane a wtx process has split off, 0 for none
  answer,    \* last answer of the WorktreeManager to a wtx process
  dirs,      \* paths at which a directory exists
  denied,    \* paths at which file system calls fail (permission denied)
  orphaned,  \* status.Orphaned of the latest Status
  codec      \* the latest calls of the owner-id codec and the oracle:
             \* arguments and results

vars == <<pool, file, age, tmp, pc, want, tpc, timer, stopCh, susp, reclaimed,
          sessions, windows, procTable, handle, pane, answer,
          dirs, denied, orphaned, codec>>

\* the state of the LockManager client (part two)
mgrVars == <<sessions, windows, procTable, handle, pane, answer>>

\* the directories of the pool and what Status made of them
poolVars == <<dirs, denied, orphaned>>

\* content of a file that has been created but not written yet
Empty == [pid |-> 0, owner |-> <<>>, worktree_path |-> <<>>, repo_root |-> <<>>]

NoFile == [exists |-> FALSE, ino |-> 0, data |-> Empty, wr |-> {}]
NoTmp == [exists |-> FALSE, data |-> Empty, wr |-> {}]

\* no result of parseTmuxOwnerID yet
NotParsed == [done |-> FALSE, ok |-> FALSE, sessionID |-> <<>>, windowID |-> <<>>]

\* no call of the codec or the oracle yet
NoCall == [origin |-> "none", sessionID |-> <<>>, windowID |-> <<>>,
           ownerID |-> <<>>, parsed |-> NotParsed, pid |-> 0, active |-> "none"]

\* lockPayload: the JSON object with pid, owner_id, worktree_path, repo_root
\* (the timestamp is carried by the file's age)
lockPayload(p, repoRoot, worktreePath) ==
  [pid |-> p, owner |-> buildOwnerID, worktree_path |-> worktreePath, repo_root |-> repoRoot]

Min(a, b) == IF a < b THEN a ELSE b

\* a process that the OS process table still contains
Alive(p) == pc[p] \notin {"exited", "dead"}

\* a process whose code is executing (alive and not stopped by a signal)
Running(p) == Alive(p) /\ susp[p] # "stopped"

\* lockWorktree returned a lock to the process and it has not released it
Holds(p) == pc[p] \in {"locked", "holding", "stopped"}

Holders(w) == {p \in Procs : Holds(p) /\ want[p] = w}

\* time.Since(info.ModTime()) < 10*time.Second
Fresh(w) == age[w] < StaleAfter

\* isWorktreeAvailable: no lock file, or one whose mtime is 10s old or older
isWorktreeAvailable(w) ==
  IF file[w].exists THEN ~Fresh(w) ELSE TRUE

Init ==
  /\ pool = {SlotPath(RepoRoot, 1)}
  /\ file = [w \in Worktrees |-> NoFile]
  /\ age = [w \in Worktrees |-> 0]
  /\ tmp = [w \in Worktrees |-> NoTmp]
  /\ pc = [p \in Procs |-> "start"]
  /\ want = [p \in Procs |-> SlotPath(RepoRoot, 1)]
  /\ tpc = [p \in Procs |-> "off"]
  /\ timer = [p \in Procs |-> 0]
  /\ stopCh = [p \in Procs |-> FALSE]
  /\ susp = [p \in Procs |-> "never"]
  /\ reclaimed = [w \in Worktrees |-> FALSE]
  /\ sessions = SessionIDs
  /\ windows = WindowIDs
  /\ procTable = Procs
  /\ handle = [p \in Procs |-> NoLock]
  /\ pane = [p \in Procs |-> 0]
  /\ answer = [p \in Procs |-> "none"]
  /\ dirs = {SlotPath(RepoRoot, 1)}
  /\ denied = {}
  /\ orphaned = {}
  /\ codec = NoCall

\* mutant: an availability check that removes the stale lock file it finds
acquireWorktree_Reclaim(p) ==
  /\ pc[p] = "start" /\ Running(p)
  /\ \E w \in pool :
       /\ isWorktreeAvailable(w)
       /\ want' = [want EXCEPT ![p] = w]
       /\ file' = [file EXCEPT ![w] = NoFile]
  /\ pc' = [pc EXCEPT ![p] = "prompt"]
  /\ UNCHANGED poolVars
  /\ UNCHANGED codec
  /\ UNCHANGED <<pool, age, tmp, tpc, timer, stopCh, susp, reclaimed>>
  /\ UNCHANGED mgrVars

\* acquireWorktree, first half: list the worktrees and ask isWorktreeAvailable
\* for each; with an available one the selection prompt opens (want is the
\* entry the user is going to choose)
acquireWorktree(p) ==
  /\ pc[p] = "start" /\ Running(p)
  /\ \E w \in pool :
       /\ isWorktreeAvailable(w)
       /\ want' = [want EXCEPT ![p] = w]
  /\ pc' = [pc EXCEPT ![p] = "prompt"]
  /\ UNCHANGED poolVars
  /\ UNCHANGED codec
  /\ UNCHANGED <<pool, file, age, tmp, tpc, timer, stopCh, susp, reclaimed>>
  /\ UNCHANGED mgrVars

\* promptSelectWorktree returns the chosen entry and acquireWorktree calls
\* lockWorktree for it
promptSelectWorktree(p) ==
  /\ pc[p] = "prompt" /\ Running(p)
  /\ pc' = [pc EXCEPT ![p] = "lw_create"]
  /\ UNCHANGED poolVars
  /\ UNCHANGED codec
  /\ UNCHANGED <<pool, file, age, tmp, want, tpc, timer, stopCh, susp, reclaimed>>
  /\ UNCHANGED mgrVars

\* mutant: O_CREATE|O_TRUNC|O_WRONLY, the O_EXCL flag forgotten
lockWorktree_Create_Trunc(p) ==
  /\ pc[p] = "lw_create" /\ Running(p)
  /\ file' = [file EXCEPT ![want[p]] = [exists |-> TRUE, ino |-> p, wr |-> {}, data |-> Empty]]
  /\ age' = [age EXCEPT ![want[p]] = 0]
  /\ pc' = [pc EXCEPT ![p] = "lw_write"]
  /\ UNCHANGED poolVars
  /\ UNCHANGED codec
  /\ UNCHANGED <<pool, tmp, want, tpc, timer, stopCh, susp, reclaimed>>
  /\ UNCHANGED mgrVars

\* os.OpenFile(lockPath, O_CREATE|O_EXCL|O_WRONLY): creates an empty file when
\* none is there, fails with ErrExist otherwise
lockWorktree_Create(p) ==
  /\ pc[p] = "lw_create" /\ Running(p)
  /\ LET w == want[p] IN
       IF file[w].exists
       THEN /\ pc' = [pc EXCEPT ![p] = "lw_stat"]
            /\ UNCHANGED <<file, age>>
       ELSE /\ file' = [file EXCEPT ![w] = [exists |-> TRUE, ino |-> p, wr |-> {}, data |-> Empty]]
            /\ age' = [age EXCEPT ![w] = 0]
            /\ pc' = [pc EXCEPT ![p] = "lw_write"]
  /\ UNCHANGED poolVars
  /\ UNCHANGED codec
  /\ UNCHANGED <<pool, tmp, want, tpc, timer, stopCh, susp, reclaimed>>
  /\ UNCHANGED mgrVars

\* file.Write(payload) on the descriptor of the file just created, then
\* newWorktreeLock: the write reaches the lock path only if that file is still
\* the one at the path
lockWorktree_Write(p) ==
  /\ pc[p] = "lw_write" /\ Running(p)
  /\ LET w == want[p] IN
       IF file[w].exists /\ file[w].ino = p /\ file[w].data = Empty
       THEN /\ file' = [file EXCEPT ![w] = [exists |-> TRUE, ino |-> p, wr |-> {},
                                             data |-> lockPayload(p, RepoRoot, w)]]
            /\ age' = [age EXCEPT ![w] = 0]
       ELSE UNCHANGED <<file, age>>
  /\ pc' = [pc EXCEPT ![p] = "locked"]
  /\ UNCHANGED poolVars
  /\ UNCHANGED codec
  /\ UNCHANGED <<pool, tmp, want, tpc, timer, stopCh, susp, reclaimed>>
  /\ UNCHANGED mgrVars

\* mutant: a stat step that asks the record instead of the mtime, and takes a
\* record without owner and pid for stale
lockWorktree_Stat_ByOwner(p) ==
  /\ pc[p] = "lw_stat" /\ Running(p)
  /\ LET w == want[p] IN
       IF ~file[w].exists \/ (Fresh(w) /\ file[w].data # Empty)
       THEN pc' = [pc EXCEPT ![p] = "start"]
       ELSE pc' = [pc EXCEPT ![p] = "lw_tmp"]
  /\ UNCHANGED poolVars
  /\ UNCHANGED codec
  /\ UNCHANGED <<pool, file, age, tmp, want, tpc, timer, stopCh, susp, reclaimed>>
  /\ UNCHANGED mgrVars

\* os.Stat(lockPath) after ErrExist: a stat error or a fresh mtime ends the
\* call with an error (acquireWorktree then starts over), a stale mtime goes on
lockWorktree_Stat(p) ==
  /\ pc[p] = "lw_stat" /\ Running(p)
  /\ LET w == want[p] IN
       IF ~file[w].exists \/ Fresh(w)
       THEN pc' = [pc EXCEPT ![p] = "start"]
       ELSE pc' = [pc EXCEPT ![p] = "lw_tmp"]
  /\ UNCHANGED poolVars
  /\ UNCHANGED codec
  /\ UNCHANGED <<pool, file, age, tmp, want, tpc, timer, stopCh, susp, reclaimed>>
  /\ UNCHANGED mgrVars

\* os.WriteFile(lockPath + ".tmp", payload), first half: the file is opened
\* with O_CREATE|O_TRUNC; an existing temporary file is emptied and stays the
\* same file, which other processes may have open too (wr)
lockWorktree_OpenTmp(p) ==
  /\ pc[p] = "lw_tmp" /\ Running(p)
  /\ LET w == want[p] IN
       tmp' = [tmp EXCEPT ![w] = [exists |-> TRUE, data |-> Empty,
                                  wr |-> tmp[w].wr \cup {p}]]
  /\ pc' = [pc EXCEPT ![p] = "lw_tmpw"]
  /\ UNCHANGED poolVars
  /\ UNCHANGED codec
  /\ UNCHANGED <<pool, file, age, want, tpc, timer, stopCh, susp, reclaimed>>
  /\ UNCHANGED mgrVars

\* os.WriteFile, second half: the payload is written to the file that was
\* opened, wherever that file is by now: still the temporary file, renamed to
\* the lock path by another process, or removed
lockWorktree_WriteTmp(p) ==
  /\ pc[p] = "lw_tmpw" /\ Running(p)
  /\ LET w == want[p] IN
       IF p \in tmp[w].wr
       THEN /\ tmp' = [tmp EXCEPT ![w] = [exists |-> TRUE,
                                          data |-> lockPayload(p, RepoRoot, w),
                                          wr |-> tmp[w].wr \ {p}]]
            /\ UNCHANGED <<file, age>>
       ELSE IF p \in file[w].wr
       THEN /\ file' = [file EXCEPT ![w] = [@ EXCEPT !.data = lockPayload(p, RepoRoot, w),
                                                     !.wr = @ \ {p}]]
            /\ age' = [age EXCEPT ![w] = 0]
            /\ UNCHANGED tmp
       ELSE UNCHANGED <<file, age, tmp>>
  /\ pc' = [pc EXCEPT ![p] = "lw_rename"]
  /\ UNCHANGED poolVars
  /\ UNCHANGED codec
  /\ UNCHANGED <<pool, want, tpc, timer, stopCh, susp, reclaimed>>
  /\ UNCHANGED mgrVars

\* os.Rename(tmpPath, lockPath): replaces the lock file by the temporary file
\* as it is at that moment (content, mtime and the descriptors open on it);
\* fails when the temporary file is gone, and os.Remove(tmpPath) finds nothing
lockWorktree_Rename(p) ==
  /\ pc[p] = "lw_rename" /\ Running(p)
  /\ LET w == want[p] IN
       IF tmp[w].exists
       THEN /\ file' = [file EXCEPT ![w] = [exists |-> TRUE, ino |-> p,
                                             wr |-> tmp[w].wr, data |-> tmp[w].data]]
            /\ age' = [age EXCEPT ![w] = 0]
            /\ tmp' = [tmp EXCEPT ![w] = NoTmp]
            /\ reclaimed' = [reclaimed EXCEPT ![w] = TRUE]
            /\ pc' = [pc EXCEPT ![p] = "locked"]
       ELSE /\ pc' = [pc EXCEPT ![p] = "start"]
            /\ UNCHANGED <<file, age, tmp, reclaimed>>
  /\ UNCHANGED poolVars
  /\ UNCHANGED codec
  /\ UNCHANGED <<pool, want, tpc, timer, stopCh, susp>>
  /\ UNCHANGED mgrVars

\* lock.StartToucher(): the goroutine starts with a ticker of 2 seconds
StartToucher(p) ==
  /\ pc[p] = "locked" /\ Running(p)
  /\ pc' = [pc EXCEPT ![p] = "holding"]
  /\ tpc' = [tpc EXCEPT ![p] = "wait"]
  /\ timer' = [timer EXCEPT ![p] = TouchEvery]
  /\ UNCHANGED poolVars
  /\ UNCHANGED codec
  /\ UNCHANGED <<pool, file, age, tmp, want, stopCh, susp, reclaimed>>
  /\ UNCHANGED mgrVars

\* mutant: a ticker period longer than the staleness threshold
Toucher_Tick_Slow(p) ==
  /\ tpc[p] = "wait" /\ Running(p) /\ timer[p] = 0
  /\ tpc' = [tpc EXCEPT ![p] = "touch"]
  /\ timer' = [timer EXCEPT ![p] = StaleAfter + TouchEvery]
  /\ UNCHANGED poolVars
  /\ UNCHANGED codec
  /\ UNCHANGED <<pool, file, age, tmp, pc, want, stopCh, susp, reclaimed>>
  /\ UNCHANGED mgrVars

\* case <-ticker.C: the goroutine receives a tick
Toucher_Tick(p) ==
  /\ tpc[p] = "wait" /\ Running(p) /\ timer[p] = 0
  /\ tpc' = [tpc EXCEPT ![p] = "touch"]
  /\ timer' = [timer EXCEPT ![p] = TouchEvery]
  /\ UNCHANGED poolVars
  /\ UNCHANGED codec
  /\ UNCHANGED <<pool, file, age, tmp, pc, want, stopCh, susp, reclaimed>>
  /\ UNCHANGED mgrVars

\* os.Chtimes(l.Path, now, now): refreshes whatever file is at the lock path;
\* the error for a missing file is dropped
Toucher_Chtimes(p) ==
  /\ tpc[p] = "touch" /\ Running(p)
  /\ age' = [age EXCEPT ![want[p]] = IF file[want[p]].exists THEN 0 ELSE @]
  /\ tpc' = [tpc EXCEPT ![p] = "wait"]
  /\ UNCHANGED poolVars
  /\ UNCHANGED codec
  /\ UNCHANGED <<pool, file, tmp, pc, want, timer, stopCh, susp, reclaimed>>
  /\ UNCHANGED mgrVars

\* case <-l.stopCh: return, and the deferred ticker.Stop()
Toucher_Stop(p) ==
  /\ tpc[p] = "wait" /\ Running(p) /\ stopCh[p]
  /\ tpc' = [tpc EXCEPT ![p] = "done"]
  /\ timer' = [timer EXCEPT ![p] = 0]
  /\ UNCHANGED poolVars
  /\ UNCHANGED codec
  /\ UNCHANGED <<pool, file, age, tmp, pc, want, stopCh, susp, reclaimed>>
  /\ UNCHANGED mgrVars

\* mutant: StopToucher that forgets to close stopCh
StopToucher_NoClose(p) ==
  /\ pc[p] \in {"holding", "stopped"} /\ Running(p)
  /\ pc' = [pc EXCEPT ![p] = "stopped"]
  /\ UNCHANGED poolVars
  /\ UNCHANGED codec
  /\ UNCHANGED <<pool, file, age, tmp, want, tpc, timer, stopCh, susp, reclaimed>>
  /\ UNCHANGED mgrVars

\* lock.StopToucher(), deferred in run and reached when waitForInterrupt
\* returns: stopOnce.Do(close(stopCh)); a repeated call does nothing
StopToucher(p) ==
  /\ pc[p] \in {"holding", "stopped"} /\ Running(p)
  /\ stopCh' = [stopCh EXCEPT ![p] = TRUE]
  /\ pc' = [pc EXCEPT ![p] = "stopped"]
  /\ UNCHANGED poolVars
  /\ UNCHANGED codec
  /\ UNCHANGED <<pool, file, age, tmp, want, tpc, timer, susp, reclaimed>>
  /\ UNCHANGED mgrVars

\* mutant: a release that clears the lock directory
Release_Dir(p) ==
  /\ pc[p] = "stopped" /\ Running(p)
  /\ file' = [w \in Worktrees |-> NoFile]
  /\ age' = [w \in Worktrees |-> 0]
  /\ pc' = [pc EXCEPT ![p] = "released"]
  /\ UNCHANGED poolVars
  /\ UNCHANGED codec
  /\ UNCHANGED <<pool, tmp, want, tpc, timer, stopCh, susp, reclaimed>>
  /\ UNCHANGED mgrVars

\* lock.Release(): os.Remove(l.Path), the error dropped
Release(p) ==
  /\ pc[p] = "stopped" /\ Running(p)
  /\ file' = [file EXCEPT ![want[p]] = NoFile]
  /\ age' = [age EXCEPT ![want[p]] = 0]
  /\ pc' = [pc EXCEPT ![p] = "released"]
  /\ UNCHANGED poolVars
  /\ UNCHANGED codec
  /\ UNCHANGED <<pool, tmp, want, tpc, timer, stopCh, susp, reclaimed>>
  /\ UNCHANGED mgrVars

\* main returns: the process ends and takes its goroutine with it
Exit(p) ==
  /\ pc[p] = "released" /\ Running(p)
  /\ pc' = [pc EXCEPT ![p] = "exited"]
  /\ tpc' = [tpc EXCEPT ![p] = IF tpc[p] \in {"wait", "touch"} THEN "killed" ELSE tpc[p]]
  /\ timer' = [timer EXCEPT ![p] = 0]
  /\ UNCHANGED poolVars
  /\ UNCHANGED codec
  /\ UNCHANGED <<pool, file, age, tmp, want, stopCh, susp, reclaimed>>
  /\ UNCHANGED mgrVars

\* the process is killed (SIGKILL) while it waits for its interrupt: no
\* deferred call runs, the lock file stays
Crash(p) ==
  /\ pc[p] = "holding"
  /\ Cardinality({q \in Procs : pc[q] = "dead"}) < MaxCrashes
  /\ pc' = [pc EXCEPT ![p] = "dead"]
  /\ tpc' = [tpc EXCEPT ![p] = IF tpc[p] \in {"wait", "touch"} THEN "killed" ELSE tpc[p]]
  /\ timer' = [timer EXCEPT ![p] = 0]
  /\ UNCHANGED poolVars
  /\ UNCHANGED codec
  /\ UNCHANGED <<pool, file, age, tmp, want, stopCh, susp, reclaimed>>
  /\ UNCHANGED mgrVars

\* SIGSTOP while the process waits for its interrupt: alive, not heartbeating
Suspend(p) ==
  /\ pc[p] = "holding" /\ susp[p] = "never" /\ tpc[p] = "wait"
  /\ Cardinality({q \in Procs : susp[q] # "never"}) < MaxSuspends
  /\ susp' = [susp EXCEPT ![p] = "stopped"]
  /\ UNCHANGED poolVars
  /\ UNCHANGED codec
  /\ UNCHANGED <<pool, file, age, tmp, pc, want, tpc, timer, stopCh, reclaimed>>
  /\ UNCHANGED mgrVars

\* SIGCONT
Resume(p) ==
  /\ susp[p] = "stopped" /\ Alive(p)
  /\ susp' = [susp EXCEPT ![p] = "resumed"]
  /\ UNCHANGED poolVars
  /\ UNCHANGED codec
  /\ UNCHANGED <<pool, file, age, tmp, pc, want, tpc, timer, stopCh, reclaimed>>
  /\ UNCHANGED mgrVars

\* a running process is blocked when it waits for the user or for a signal
Blocked(p) == pc[p] \in {"start", "prompt", "holding"}

\* one time unit passes
Advance ==
  /\ \A p \in Procs : Running(p) =>
        /\ Blocked(p)
        /\ tpc[p] # "touch"
        /\ tpc[p] = "wait" => timer[p] > 0
  /\ age' = [w \in Worktrees |-> IF file[w].exists THEN Min(age[w] + 1, StaleAfter) ELSE age[w]]
  /\ timer' = [p \in Procs |-> IF tpc[p] = "wait" /\ Alive(p) /\ timer[p] > 0
                               THEN timer[p] - 1 ELSE timer[p]]
  /\ UNCHANGED poolVars
  /\ UNCHANGED codec
  /\ UNCHANGED <<pool, file, tmp, pc, want, tpc, stopCh, susp, reclaimed>>
  /\ UNCHANGED mgrVars

Next ==
  \/ \E p \in Procs : acquireWorktree(p)
  \/ \E p \in Procs : promptSelectWorktree(p)
  \/ \E p \in Procs : lockWorktree_Create(p)
  \/ \E p \in Procs : lockWorktree_Write(p)
  \/ \E p \in Procs : lockWorktree_Stat(p)
  \/ \E p \in Procs : lockWorktree_OpenTmp(p)
  \/ \E p \in Procs : lockWorktree_WriteTmp(p)
  \/ \E p \in Procs : lockWorktree_Rename(p)
  \/ \E p \in Procs : StartToucher(p)
  \/ \E p \in Procs : Toucher_Tick(p)
  \/ \E p \in Procs : Toucher_Chtimes(p)
  \/ \E p \in Procs : Toucher_Stop(p)
  \/ \E p \in Procs : StopToucher(p)
  \/ \E p \in Procs : Release(p)
  \/ \E p \in Procs : Exit(p)
  \/ \E p \in Procs : Crash(p)
  \/ \E p \in Procs : Suspend(p)
  \/ \E p \in Procs : Resume(p)
  \/ Advance

Spec == Init /\ [][Next]_vars

\* the same program with two worktrees listed: every process selects either
PairInit ==
  /\ pool = {SlotPath(RepoRoot, 1), SlotPath(RepoRoot, 2)}
  /\ dirs = {SlotPath(RepoRoot, 1), SlotPath(RepoRoot, 2)}
  /\ file = [w \in Worktrees |-> NoFile]
  /\ age = [w \in Worktrees |-> 0]
  /\ tmp = [w \in Worktrees |-> NoTmp]
  /\ pc = [p \in Procs |-> "start"]
  /\ want = [p \in Procs |-> SlotPath(RepoRoot, 1)]
  /\ tpc = [p \in Procs |-> "off"]
  /\ timer = [p \in Procs |-> 0]
  /\ stopCh = [p \in Procs |-> FALSE]
  /\ susp = [p \in Procs |-> "never"]
  /\ reclaimed = [w \in Worktrees |-> FALSE]
  /\ sessions = SessionIDs
  /\ windows = WindowIDs
  /\ procTable = Procs
  /\ handle = [p \in Procs |-> NoLock]
  /\ pane = [p \in Procs |-> 0]
  /\ answer = [p \in Procs |-> "none"]
  /\ denied = {}
  /\ orphaned = {}
  /\ codec = NoCall

PairSpec == PairInit /\ [][Next]_vars

\* ========================================================================
\* Part two: the LockManager and its clients.  main.run hands the worktree
\* selected in the UI (and the lock taken on selection) to the Runner, which
\* starts the agent in a new tmux pane or as a child process and binds the
\* lock to that process.  The tmux server and the OS process table are the
\* environment.
\* ========================================================================

TmuxPrefix == <<"t", "m", "u", "x", ":">>

HasPrefix(str, pre) == Len(str) >= Len(pre) /\ SubSeq(str, 1, Len(pre)) = pre

\* position of the first ":" of str at or after i, 0 when there is none
RECURSIVE IndexOfColon(_, _)
IndexOfColon(str, i) ==
  IF i > Len(str) THEN 0
  ELSE IF str[i] = ":" THEN i ELSE IndexOfColon(str, i + 1)

\* the tmux session and window a wtx process runs in; <<>> for none
TmuxOf(c) ==
  IF c = 1 THEN [sessionID |-> <<"$", "1">>, windowID |-> <<"@", "2">>]
  ELSE IF c = 3 THEN [sessionID |-> <<"$", "9">>, windowID |-> <<>>]
  ELSE [sessionID |-> <<>>, windowID |-> <<>>]

\* Encode: "tmux:<session>", "tmux:<session>:<window>", or "<user>@<host>"
Encode(sessionID, windowID) ==
  IF sessionID = <<>> THEN buildOwnerID
  ELSE IF windowID = <<>> THEN TmuxPrefix \o sessionID
  ELSE TmuxPrefix \o sessionID \o <<":">> \o windowID

\* mutant: a decoder that takes all of the rest as the session
parseTmuxOwnerID_NoSplit(ownerID) ==
  LET rest == SubSeq(ownerID, Len(TmuxPrefix) + 1, Len(ownerID))
  IN IF ~HasPrefix(ownerID, TmuxPrefix) \/ rest = <<>>
     THEN [ok |-> FALSE, sessionID |-> <<>>, windowID |-> <<>>]
     ELSE [ok |-> TRUE, sessionID |-> rest, windowID |-> <<>>]

\* mutant: a decoder that accepts every string with the prefix
parseTmuxOwnerID_Lenient(ownerID) ==
  LET rest == SubSeq(ownerID, Len(TmuxPrefix) + 1, Len(ownerID))
      i == IndexOfColon(rest, 1)
      sessionID == IF i = 0 THEN rest ELSE SubSeq(rest, 1, i - 1)
      windowID == IF i = 0 THEN <<>> ELSE SubSeq(rest, i + 1, Len(rest))
  IN IF ~HasPrefix(ownerID, TmuxPrefix)
     THEN [ok |-> FALSE, sessionID |-> <<>>, windowID |-> <<>>]
     ELSE [ok |-> TRUE, sessionID |-> sessionID, windowID |-> windowID]

\* parseTmuxOwnerID: (sessionID, windowID, ok)
parseTmuxOwnerID(ownerID) ==
  LET rest == SubSeq(ownerID, Len(TmuxPrefix) + 1, Len(ownerID))
      i == IndexOfColon(rest, 1)
      sessionID == IF i = 0 THEN rest ELSE SubSeq(rest, 1, i - 1)
      windowID == IF i = 0 THEN <<>> ELSE SubSeq(rest, i + 1, Len(rest))
  IN IF ~HasPrefix(ownerID, TmuxPrefix) \/ sessionID = <<>>
     THEN [ok |-> FALSE, sessionID |-> <<>>, windowID |-> <<>>]
     ELSE [ok |-> TRUE, sessionID |-> sessionID, windowID |-> windowID]

\* "is this process id currently running"
pidAlive(pid) == pid \in procTable

\* mutant: an oracle that takes an unknown owner without pid for active
lockOwnerStillActive_UnknownActive(ownerID, pid) ==
  LET t == parseTmuxOwnerID(ownerID) IN
  IF ownerID = <<>> /\ pid = 0 THEN TRUE
  ELSE IF t.ok /\ t.sessionID \notin sessions THEN FALSE
  ELSE IF t.ok /\ t.windowID # <<>> /\ t.windowID \notin windows THEN FALSE
  ELSE pidAlive(pid)

\* mutant: an oracle that asks the process table for tmux owners only
lockOwnerStillActive_TrustOwner(ownerID, pid) ==
  LET t == parseTmuxOwnerID(ownerID) IN
  IF ownerID = <<>> /\ pid = 0 THEN FALSE
  ELSE IF t.ok /\ t.sessionID \notin sessions THEN FALSE
  ELSE IF t.ok /\ t.windowID # <<>> /\ t.windowID \notin windows THEN FALSE
  ELSE IF ~t.ok THEN TRUE
  ELSE pidAlive(pid)

\* mutant: the PID check is consulted although the session is gone
lockOwnerStillActive_PidFirst(ownerID, pid) ==
  IF ownerID = <<>> /\ pid = 0 THEN FALSE ELSE pidAlive(pid)

\* lockOwnerStillActive (the liveness oracle): a gone tmux session or window
\* makes the owner inactive whatever the pid; otherwise the pid decides
lockOwnerStillActive(ownerID, pid) ==
  LET t == parseTmuxOwnerID(ownerID) IN
  IF ownerID = <<>> /\ pid = 0 THEN FALSE
  ELSE IF t.ok /\ t.sessionID \notin sessions THEN FALSE
  ELSE IF t.ok /\ t.windowID # <<>> /\ t.windowID \notin windows THEN FALSE
  ELSE pidAlive(pid)

\* the file system in which paths are resolved: the working directory of the
\* processes, the one symbolic link (/home/link -> /home/repo.wt) and the
\* directories that os.Lstat finds on the way to a worktree
Cwd == RepoRoot

Symlinks == [l \in {<<"home", "link">>} |-> worktreeRoot(RepoRoot)]

Directories == {<<"home">>, RepoRoot, worktreeRoot(RepoRoot)} \cup Worktrees

\* filepath.IsAbs: absolute paths are written from the top-level directory
IsAbs(path) == path # <<>> /\ path[1] = RepoRoot[1]

\* filepath.Clean: "." is dropped, ".." takes back the component before it
RECURSIVE Clean(_, _)
Clean(done, rest) ==
  IF rest = <<>> THEN done
  ELSE IF Head(rest) = "." THEN Clean(done, Tail(rest))
  ELSE IF Head(rest) = ".."
  THEN Clean(IF done = <<>> THEN done ELSE filepathDir(done), Tail(rest))
  ELSE Clean(Append(done, Head(rest)), Tail(rest))

\* filepath.Abs: a relative path is joined to the working directory
filepathAbs(path) ==
  IF IsAbs(path) THEN Clean(<<>>, path) ELSE Clean(<<>>, Cwd \o path)

\* filepath.EvalSymlinks: component by component, a symbolic link is replaced
\* by its target; a component that does not exist is an error (<<>>)
RECURSIVE walkSymlinks(_, _)
walkSymlinks(done, rest) ==
  IF rest = <<>> THEN done
  ELSE LET next == Append(done, Head(rest)) IN
       IF next \in DOMAIN Symlinks THEN walkSymlinks(Symlinks[next], Tail(rest))
       ELSE IF next \in Directories THEN walkSymlinks(next, Tail(rest))
       ELSE <<>>

filepathEvalSymlinks(path) == walkSymlinks(<<>>, path)

\* mutant: a realPath that makes the path absolute and resolves no link
realPath_AbsOnly(path) == filepathAbs(path)

\* realPath: filepath.Abs, then filepath.EvalSymlinks; <<>> for an error
realPath(path) == filepathEvalSymlinks(filepathAbs(path))

\* worktreeLockPath: the hash of (real repository root, real worktree path),
\* an error (<<>>) when either does not resolve.  The hash is taken as
\* injective, and with one repository the real worktree path stands for it
worktreeLockPath(repoRoot, worktreePath) ==
  LET repoRootReal == realPath(repoRoot)
      worktreeReal == realPath(worktreePath)
  IN IF repoRootReal = <<>> \/ worktreeReal = <<>> THEN <<>> ELSE worktreeReal

\* LockManager.IsAvailable: no lock file, or one whose owner is not active
IsAvailable(repoRoot, worktreePath) ==
  LET f == file[worktreeLockPath(repoRoot, worktreePath)] IN
  ~f.exists \/ ~lockOwnerStillActive(f.data.owner, f.data.pid)

\* the record a wtx process c writes for pid
Payload(c, pid, repoRoot, worktreePath, windowID) ==
  [pid |-> pid, owner |-> Encode(TmuxOf(c).sessionID, windowID),
   worktree_path |-> worktreePath, repo_root |-> repoRoot]

\* LockManager.AcquireForPID: Create; on AlreadyExists read the record and
\* ask the oracle: a live owner gives Locked, a stale one is overwritten
AcquireForPID(c, repoRoot, worktreePath, pid) ==
  LET path == worktreeLockPath(repoRoot, worktreePath)
      f == file[path]
      mine == [exists |-> TRUE, ino |-> c, wr |-> {},
               data |-> Payload(c, pid, repoRoot, worktreePath, TmuxOf(c).windowID)]
      lock == [Path |-> path, WorktreePath |-> worktreePath, RepoRoot |-> repoRoot]
  IN IF f.exists /\ lockOwnerStillActive(f.data.owner, f.data.pid)
     THEN [ok |-> FALSE, file |-> file, lock |-> NoLock]
     ELSE [ok |-> TRUE, file |-> [file EXCEPT ![path] = mine], lock |-> lock]

\* LockManager.Acquire binds the lock to the caller's own pid
Acquire(c, repoRoot, worktreePath) == AcquireForPID(c, repoRoot, worktreePath, c)

\* WorktreeLock.RebindPID: the record at lock.Path is rewritten with the new
\* pid and, when its owner names a tmux window, the current window; session,
\* worktree and repository stay.  With no record at lock.Path the outcome is
\* open: an error, or a record written afresh from the lock handle
RebindPID(c, lock, pid, windowID, recreate) ==
  LET f == file[lock.Path]
      t == parseTmuxOwnerID(f.data.owner)
      owner == IF t.ok /\ t.windowID # <<>> /\ windowID # <<>>
               THEN Encode(t.sessionID, windowID) ELSE f.data.owner
  IN IF f.exists
     THEN [ok |-> TRUE,
           file |-> [file EXCEPT ![lock.Path] =
                       [exists |-> TRUE, ino |-> c, wr |-> {},
                        data |-> [f.data EXCEPT !.pid = pid, !.owner = owner]]]]
     ELSE IF recreate
     THEN [ok |-> TRUE,
           file |-> [file EXCEPT ![lock.Path] =
                       [exists |-> TRUE, ino |-> c, wr |-> {},
                        data |-> Payload(c, pid, lock.RepoRoot, lock.WorktreePath,
                                         IF TmuxOf(c).windowID = <<>> THEN <<>> ELSE windowID)]]]
     ELSE [ok |-> FALSE, file |-> file]

\* mutant: a release that leaves the lock file where it is
ReleaseLock_Noop(lock) == file

\* WorktreeLock.Release: delete, a missing file is no error
ReleaseLock(lock) ==
  IF lock = NoLock THEN file ELSE [file EXCEPT ![lock.Path] = NoFile]

\* LockManager.ForceUnlock: delete, whoever the owner is and whether or not
\* it is active; a missing file is no error
ForceUnlock(repoRoot, worktreePath) ==
  [file EXCEPT ![worktreeLockPath(repoRoot, worktreePath)] = NoFile]

MgrInit ==
  /\ pool = {SlotPath(RepoRoot, 1)}
  /\ file = [w \in Worktrees |-> NoFile]
  /\ age = [w \in Worktrees |-> 0]
  /\ tmp = [w \in Worktrees |-> NoTmp]
  /\ pc = [p \in Procs |-> IF p \in Callers THEN "m_select" ELSE "exited"]
  /\ want = [p \in Procs |-> SlotPath(RepoRoot, 1)]
  /\ tpc = [p \in Procs |-> "off"]
  /\ timer = [p \in Procs |-> 0]
  /\ stopCh = [p \in Procs |-> FALSE]
  /\ susp = [p \in Procs |-> "never"]
  /\ reclaimed = [w \in Worktrees |-> FALSE]
  /\ sessions = SessionIDs
  /\ windows = WindowIDs
  /\ procTable = Callers
  /\ handle = [p \in Procs |-> NoLock]
  /\ pane = [p \in Procs |-> 0]
  /\ answer = [p \in Procs |-> "none"]
  /\ dirs = {SlotPath(RepoRoot, 1)}
  /\ denied = {}
  /\ orphaned = {}
  /\ codec = NoCall

InTmux(c) == TmuxOf(c).sessionID # <<>>

\* the pid the OS gives the next new process: one not yet used; pids are
\* names only, so the least unused one stands for any
FreshPids ==
  LET unused == {q \in PanePids : \A d \in Callers : pane[d] # q} IN
  {q \in unused : \A r \in unused : q <= r}

\* worktreePathExists: os.Stat of the path; ok is FALSE for an error other
\* than ErrNotExist
worktreePathExists(path) ==
  IF path \in denied THEN [ok |-> FALSE, exists |-> FALSE]
  ELSE [ok |-> TRUE, exists |-> path \in dirs]

\* the Available flag Status gives a listed worktree: false for a missing
\* directory (IsAvailable is not asked), else the answer of IsAvailable
AvailableFlag(w) ==
  IF ~worktreePathExists(w).exists THEN "in use"
  ELSE IF IsAvailable(RepoRoot, w) THEN "available" ELSE "in use"

\* mutant: a Status that asks IsAvailable for every listed worktree and
\* reports none as orphaned
Status_LockOnly(c) ==
  /\ pc[c] = "m_select" /\ c \in procTable
  /\ IF \E w \in pool : ~worktreePathExists(w).ok
     THEN /\ answer' = [answer EXCEPT ![c] = "error"]
          /\ UNCHANGED want
     ELSE \E w \in pool :
            /\ want' = [want EXCEPT ![c] = w]
            /\ answer' = [answer EXCEPT ![c] =
                  IF IsAvailable(RepoRoot, w) THEN "available" ELSE "in use"]
  /\ orphaned' = {}
  /\ UNCHANGED <<dirs, denied>>
  /\ UNCHANGED codec
  /\ UNCHANGED <<pool, file, age, tmp, pc, tpc, timer, stopCh, susp, reclaimed>>
  /\ UNCHANGED <<sessions, windows, procTable, handle, pane>>

\* WorktreeManager.Status: for every listed worktree, worktreePathExists and,
\* for an existing directory, IsAvailable; the worktrees without a directory
\* make status.Orphaned.  An error of os.Stat ends Status with status.Err and
\* without status.Orphaned.  Of the flags, the model keeps the one of the
\* worktree w that the UI shows to the user
Status(c) ==
  /\ pc[c] = "m_select" /\ c \in procTable
  /\ IF \E w \in pool : ~worktreePathExists(w).ok
     THEN /\ answer' = [answer EXCEPT ![c] = "error"]
          /\ orphaned' = {}
          /\ UNCHANGED want
     ELSE /\ \E w \in pool :
               /\ want' = [want EXCEPT ![c] = w]
               /\ answer' = [answer EXCEPT ![c] = AvailableFlag(w)]
          /\ orphaned' = {w \in pool : ~worktreePathExists(w).exists}
  /\ UNCHANGED <<dirs, denied>>
  /\ UNCHANGED codec
  /\ UNCHANGED <<pool, file, age, tmp, pc, tpc, timer, stopCh, susp, reclaimed>>
  /\ UNCHANGED <<sessions, windows, procTable, handle, pane>>

\* WorktreeManager.AcquireWorktreeLock on selection: with the lock the
\* worktree becomes the pending worktree of the UI; Locked leaves all as it is
AcquireWorktreeLock(c) ==
  /\ pc[c] = "m_select" /\ c \in procTable
  /\ \E w \in pool :
       LET r == Acquire(c, RepoRoot, w) IN
       /\ r.ok
       /\ file' = r.file
       /\ handle' = [handle EXCEPT ![c] = r.lock]
       /\ want' = [want EXCEPT ![c] = w]
  /\ pc' = [pc EXCEPT ![c] = "m_run"]
  /\ answer' = [answer EXCEPT ![c] = "none"]
  /\ UNCHANGED poolVars
  /\ UNCHANGED codec
  /\ UNCHANGED <<pool, age, tmp, tpc, timer, stopCh, susp, reclaimed>>
  /\ UNCHANGED <<sessions, windows, procTable, pane>>

\* mutant: an unlock that spares the lock of an active owner
UnlockWorktree_IfStale(c) ==
  /\ pc[c] = "m_select" /\ c \in procTable
  /\ \E w \in pool :
       /\ file' = IF IsAvailable(RepoRoot, w) THEN ForceUnlock(RepoRoot, w) ELSE file
       /\ want' = [want EXCEPT ![c] = w]
  /\ answer' = [answer EXCEPT ![c] = "unlocked"]
  /\ UNCHANGED poolVars
  /\ UNCHANGED codec
  /\ UNCHANGED <<pool, age, tmp, pc, tpc, timer, stopCh, susp, reclaimed>>
  /\ UNCHANGED <<sessions, windows, procTable, handle, pane>>

\* WorktreeManager.UnlockWorktree: ForceUnlock of a listed worktree, asked
\* for by the user; it returns nil (answer "unlocked" for that worktree)
UnlockWorktree(c) ==
  /\ pc[c] = "m_select" /\ c \in procTable
  /\ \E w \in pool :
       /\ file' = ForceUnlock(RepoRoot, w)
       /\ want' = [want EXCEPT ![c] = w]
  /\ answer' = [answer EXCEPT ![c] = "unlocked"]
  /\ UNCHANGED poolVars
  /\ UNCHANGED codec
  /\ UNCHANGED <<pool, age, tmp, pc, tpc, timer, stopCh, susp, reclaimed>>
  /\ UNCHANGED <<sessions, windows, procTable, handle, pane>>

\* the UI ends with a pending worktree and no lock (lock == nil in run);
\* its status display goes with it
PendingWorktree_NoLock(c) ==
  /\ pc[c] = "m_select" /\ c \in procTable
  /\ \E w \in pool : want' = [want EXCEPT ![c] = w]
  /\ pc' = [pc EXCEPT ![c] = "m_run"]
  /\ answer' = [answer EXCEPT ![c] = "none"]
  /\ UNCHANGED poolVars
  /\ UNCHANGED codec
  /\ UNCHANGED <<pool, file, age, tmp, tpc, timer, stopCh, susp, reclaimed>>
  /\ UNCHANGED <<sessions, windows, procTable, handle, pane>>

\* mutant: an error path of run that returns the error and keeps the lock
run_Fail_KeepLock(c) ==
  /\ file' = file
  /\ handle' = [handle EXCEPT ![c] = NoLock]
  /\ pc' = [pc EXCEPT ![c] = "m_failed"]
  /\ procTable' = procTable \ {c}

\* run, error path: lock.Release() when there is a lock, then the error is
\* returned and the process ends
run_Fail(c) ==
  /\ file' = ReleaseLock(handle[c])
  /\ handle' = [handle EXCEPT ![c] = NoLock]
  /\ pc' = [pc EXCEPT ![c] = "m_failed"]
  /\ procTable' = procTable \ {c}

\* runInTmux: splitAgentPane / splitShellPane start the command in a new pane
\* and return its id; a failing tmux makes run fail
runInTmux_Split(c) ==
  /\ pc[c] = "m_run" /\ c \in procTable /\ InTmux(c)
  /\ IF TmuxOf(c).sessionID \in sessions
     THEN \E q \in FreshPids :
            /\ pane' = [pane EXCEPT ![c] = q]
            /\ procTable' = procTable \cup {q}
            /\ pc' = [pc EXCEPT ![c] = "m_pane"]
            /\ UNCHANGED <<file, handle>>
     ELSE run_Fail(c) /\ UNCHANGED pane
  /\ UNCHANGED poolVars
  /\ UNCHANGED codec
  /\ UNCHANGED <<pool, age, tmp, want, tpc, timer, stopCh, susp, reclaimed>>
  /\ UNCHANGED <<sessions, windows, answer>>

\* mutant: the rebind is given the caller's own pid instead of the new one
lockWorktreeForPID_OwnPid(c, pid, windowID, recreate) ==
  IF handle[c] # NoLock
  THEN LET r == RebindPID(c, handle[c], c, windowID, recreate) IN
       [ok |-> r.ok, file |-> r.file, lock |-> IF r.ok THEN handle[c] ELSE NoLock]
  ELSE AcquireForPID(c, RepoRoot, want[c], pid)

\* mutant: the lock is acquired for pid whether or not there is a lock already
lockWorktreeForPID_AlwaysAcquire(c, pid, windowID, recreate) ==
  AcquireForPID(c, RepoRoot, want[c], pid)

\* Runner.lockWorktreeForPID: an existing lock is rebound to pid, otherwise
\* the lock is acquired for pid
lockWorktreeForPID(c, pid, windowID, recreate) ==
  IF handle[c] # NoLock
  THEN LET r == RebindPID(c, handle[c], pid, windowID, recreate) IN
       [ok |-> r.ok, file |-> r.file, lock |-> IF r.ok THEN handle[c] ELSE NoLock]
  ELSE AcquireForPID(c, RepoRoot, want[c], pid)

\* the window tmux reports for the pane of c: any live window of its session
\* when c knows its window, none otherwise
CurrentWindows(c) ==
  IF TmuxOf(c).windowID = <<>> THEN {<<>>}
  ELSE {win \in windows : SessionOfWindow(win) = TmuxOf(c).sessionID}

\* mutant: lockWorktreeForPane returns without binding the lock to the pane
lockWorktreeForPane_Skip(c) ==
  /\ pc[c] = "m_pane" /\ c \in procTable
  /\ pc' = [pc EXCEPT ![c] = "m_done"]
  /\ procTable' = procTable \ {c}
  /\ UNCHANGED poolVars
  /\ UNCHANGED codec
  /\ UNCHANGED <<pool, file, age, tmp, want, tpc, timer, stopCh, susp, reclaimed>>
  /\ UNCHANGED <<sessions, windows, handle, pane, answer>>

\* Runner.lockWorktreeForPane, called by runInTmux: panePID resolves the pane
\* to its pid (an error when the pane is gone), then lockWorktreeForPID; on
\* success run returns and wtx ends, on an error run fails
lockWorktreeForPane(c) ==
  /\ pc[c] = "m_pane" /\ c \in procTable
  /\ IF pane[c] \in procTable /\ TmuxOf(c).sessionID \in sessions
     THEN \E win \in CurrentWindows(c), recreate \in BOOLEAN :
            LET r == lockWorktreeForPID(c, pane[c], win, recreate) IN
            IF r.ok
            THEN /\ file' = r.file
                 /\ handle' = [handle EXCEPT ![c] = r.lock]
                 /\ pc' = [pc EXCEPT ![c] = "m_done"]
                 /\ procTable' = procTable \ {c}
            ELSE run_Fail(c)
     ELSE run_Fail(c)
  /\ UNCHANGED poolVars
  /\ UNCHANGED codec
  /\ UNCHANGED <<pool, age, tmp, want, tpc, timer, stopCh, susp, reclaimed>>
  /\ UNCHANGED <<sessions, windows, pane, answer>>

\* runWithoutTmux: cmd.Start() gives the child its pid
runWithoutTmux_Start(c) ==
  /\ pc[c] = "m_run" /\ c \in procTable /\ ~InTmux(c)
  /\ \E q \in FreshPids :
       /\ pane' = [pane EXCEPT ![c] = q]
       /\ procTable' = procTable \cup {q}
  /\ pc' = [pc EXCEPT ![c] = "m_child"]
  /\ UNCHANGED poolVars
  /\ UNCHANGED codec
  /\ UNCHANGED <<pool, file, age, tmp, want, tpc, timer, stopCh, susp, reclaimed>>
  /\ UNCHANGED <<sessions, windows, handle, answer>>

\* runWithoutTmux: lockWorktreeForPID for the child; on an error the child is
\* killed and run fails
runWithoutTmux_Lock(c) ==
  /\ pc[c] = "m_child" /\ c \in procTable
  /\ \E recreate \in BOOLEAN :
     LET r == lockWorktreeForPID(c, pane[c], <<>>, recreate) IN
     IF r.ok
     THEN /\ file' = r.file
          /\ handle' = [handle EXCEPT ![c] = r.lock]
          /\ pc' = [pc EXCEPT ![c] =
                      IF handle[c] # NoLock THEN "m_wait" ELSE "m_wait_new"]
          /\ UNCHANGED procTable
     ELSE /\ file' = ReleaseLock(handle[c])
          /\ handle' = [handle EXCEPT ![c] = NoLock]
          /\ pc' = [pc EXCEPT ![c] = "m_failed"]
          /\ procTable' = procTable \ {c, pane[c]}
  /\ UNCHANGED poolVars
  /\ UNCHANGED codec
  /\ UNCHANGED <<pool, age, tmp, want, tpc, timer, stopCh, susp, reclaimed>>
  /\ UNCHANGED <<sessions, windows, pane, answer>>

\* runWithoutTmux: cmd.Wait() returns when the child has ended, the deferred
\* boundLock.Release() runs and runWithoutTmux returns, with an error when the
\* command failed (runErr); with that error and a lock of its own, run goes
\* on to its lock.Release()
runWithoutTmux_Wait(c) ==
  /\ pc[c] \in {"m_wait", "m_wait_new"} /\ c \in procTable /\ pane[c] \notin procTable
  /\ file' = ReleaseLock(handle[c])
  /\ \E runErr \in BOOLEAN :
       IF runErr /\ pc[c] = "m_wait"
       THEN /\ pc' = [pc EXCEPT ![c] = "m_runerr"]
            /\ UNCHANGED <<handle, procTable>>
       ELSE /\ pc' = [pc EXCEPT ![c] = IF runErr THEN "m_failed" ELSE "m_done"]
            /\ handle' = [handle EXCEPT ![c] = NoLock]
            /\ procTable' = procTable \ {c}
  /\ UNCHANGED poolVars
  /\ UNCHANGED codec
  /\ UNCHANGED <<pool, age, tmp, want, tpc, timer, stopCh, susp, reclaimed>>
  /\ UNCHANGED <<sessions, windows, pane, answer>>

\* run after RunInWorktree returned the error of the command: lock.Release()
\* on the lock that runWithoutTmux has released already, then the process ends
run_ReleaseAgain(c) ==
  /\ pc[c] = "m_runerr" /\ c \in procTable
  /\ file' = ReleaseLock(handle[c])
  /\ pc' = [pc EXCEPT ![c] = "m_released"]
  /\ procTable' = procTable \ {c}
  /\ UNCHANGED poolVars
  /\ UNCHANGED codec
  /\ UNCHANGED <<pool, age, tmp, want, tpc, timer, stopCh, susp, reclaimed>>
  /\ UNCHANGED <<sessions, windows, handle, pane, answer>>

\* mutant: a delete that goes on to git when the lock is held
DeleteWorktree_Acquire_Anyway(c) ==
  /\ pc[c] = "m_select" /\ c \in procTable
  /\ \E w \in pool, ready \in BOOLEAN :
       LET r == Acquire(c, RepoRoot, w) IN
       IF ~ready
       THEN /\ answer' = [answer EXCEPT ![c] = "error"]
            /\ UNCHANGED <<file, handle, want, pc>>
       ELSE /\ file' = r.file
            /\ handle' = [handle EXCEPT ![c] = r.lock]
            /\ want' = [want EXCEPT ![c] = w]
            /\ answer' = [answer EXCEPT ![c] = "none"]
            /\ pc' = [pc EXCEPT ![c] = "dw_remove"]
  /\ UNCHANGED poolVars
  /\ UNCHANGED codec
  /\ UNCHANGED <<pool, age, tmp, tpc, timer, stopCh, susp, reclaimed>>
  /\ UNCHANGED <<sessions, windows, procTable, pane>>

\* WorktreeManager.DeleteWorktree up to the lock: no git or no repository
\* (ready = FALSE) returns at once; then m.lockMgr.Acquire(repoRoot, path),
\* whose error returns
DeleteWorktree_Acquire(c) ==
  /\ pc[c] = "m_select" /\ c \in procTable
  /\ \E w \in pool, ready \in BOOLEAN :
       LET r == Acquire(c, RepoRoot, w) IN
       IF ~ready
       THEN /\ answer' = [answer EXCEPT ![c] = "error"]
            /\ UNCHANGED <<file, handle, want, pc>>
       ELSE IF r.ok
       THEN /\ file' = r.file
            /\ handle' = [handle EXCEPT ![c] = r.lock]
            /\ want' = [want EXCEPT ![c] = w]
            /\ answer' = [answer EXCEPT ![c] = "none"]
            /\ pc' = [pc EXCEPT ![c] = "dw_remove"]
       ELSE /\ answer' = [answer EXCEPT ![c] = "locked"]
            /\ want' = [want EXCEPT ![c] = w]
            /\ UNCHANGED <<file, handle, pc>>
  /\ UNCHANGED poolVars
  /\ UNCHANGED codec
  /\ UNCHANGED <<pool, age, tmp, tpc, timer, stopCh, susp, reclaimed>>
  /\ UNCHANGED <<sessions, windows, procTable, pane>>

\* DeleteWorktree: git worktree remove [--force] path, which removes the
\* directory and the listing or fails (ok = FALSE); then DeleteWorktree
\* returns and the deferred lock.Release() runs
DeleteWorktree_Remove(c) ==
  /\ pc[c] = "dw_remove" /\ c \in procTable
  /\ \E ok \in BOOLEAN :
       IF ok
       THEN /\ pool' = pool \ {want[c]}
            /\ dirs' = dirs \ {want[c]}
            /\ answer' = [answer EXCEPT ![c] = "deleted"]
       ELSE /\ answer' = [answer EXCEPT ![c] = "error"]
            /\ UNCHANGED <<pool, dirs>>
  /\ file' = ReleaseLock(handle[c])
  /\ handle' = [handle EXCEPT ![c] = NoLock]
  /\ pc' = [pc EXCEPT ![c] = "m_select"]
  /\ UNCHANGED <<denied, orphaned>>
  /\ UNCHANGED codec
  /\ UNCHANGED <<age, tmp, want, tpc, timer, stopCh, susp, reclaimed>>
  /\ UNCHANGED <<sessions, windows, procTable, pane>>

\* mutant: a return that gives up when the force-unlock reports an error
returnToWTX_StopOnError(c) ==
  /\ pc[c] = "m_done" /\ handle[c] # NoLock
  /\ InTmux(c) /\ TmuxOf(c).sessionID \in sessions
  /\ \E basePath \in {<<>>, handle[c].WorktreePath}, unlockErr \in BOOLEAN :
       IF basePath = <<>>
       THEN /\ pc' = [pc EXCEPT ![c] = "r_failed"]
            /\ answer' = [answer EXCEPT ![c] = "missing path"]
            /\ UNCHANGED file
       ELSE IF unlockErr
       THEN /\ pc' = [pc EXCEPT ![c] = "r_failed"]
            /\ answer' = [answer EXCEPT ![c] = "unlock failed"]
            /\ UNCHANGED file
       ELSE /\ pc' = [pc EXCEPT ![c] = "r_unlocked"]
            /\ file' = ForceUnlock(RepoRoot, basePath)
            /\ UNCHANGED answer
  /\ UNCHANGED poolVars
  /\ UNCHANGED codec
  /\ UNCHANGED <<pool, age, tmp, want, tpc, timer, stopCh, susp, reclaimed>>
  /\ UNCHANGED <<sessions, windows, procTable, handle, pane>>

\* returnToWTX(basePath, sourcePane), chosen in the popup of the pane that c
\* started: an empty base path is an error; otherwise the force-unlock of the
\* worktree (wtx tmux-agent-exit --force-unlock), whose error is dropped
returnToWTX(c) ==
  /\ pc[c] = "m_done" /\ handle[c] # NoLock
  /\ InTmux(c) /\ TmuxOf(c).sessionID \in sessions
  /\ \E basePath \in {<<>>, handle[c].WorktreePath}, unlockErr \in BOOLEAN :
       IF basePath = <<>>
       THEN /\ pc' = [pc EXCEPT ![c] = "r_failed"]
            /\ answer' = [answer EXCEPT ![c] = "missing path"]
            /\ UNCHANGED file
       ELSE IF unlockErr
       THEN /\ pc' = [pc EXCEPT ![c] = "r_unlockerr"]
            /\ UNCHANGED <<file, answer>>
       ELSE /\ pc' = [pc EXCEPT ![c] = "r_unlocked"]
            /\ file' = ForceUnlock(RepoRoot, basePath)
            /\ UNCHANGED answer
  /\ UNCHANGED poolVars
  /\ UNCHANGED codec
  /\ UNCHANGED <<pool, age, tmp, want, tpc, timer, stopCh, susp, reclaimed>>
  /\ UNCHANGED <<sessions, windows, procTable, handle, pane>>

\* returnToWTX, after the force-unlock: the pane is resolved and tmux
\* respawn-pane -k ends the process of the pane and starts wtx in it; with no
\* tmux to ask, the error is returned
returnToWTX_Respawn(c) ==
  /\ pc[c] \in {"r_unlocked", "r_unlockerr"}
  /\ IF TmuxOf(c).sessionID \in sessions
     THEN /\ pc' = [pc EXCEPT ![c] = "r_respawned"]
          /\ procTable' = procTable \ {pane[c]}
          /\ UNCHANGED answer
     ELSE /\ pc' = [pc EXCEPT ![c] = "r_failed"]
          /\ answer' = [answer EXCEPT ![c] = "no pane"]
          /\ UNCHANGED procTable
  /\ UNCHANGED poolVars
  /\ UNCHANGED codec
  /\ UNCHANGED <<pool, file, age, tmp, want, tpc, timer, stopCh, susp, reclaimed>>
  /\ UNCHANGED <<sessions, windows, handle, pane>>

\* tmux: a session is destroyed, and its windows with it
tmux_KillSession(sid) ==
  /\ sid \in sessions
  /\ sessions' = sessions \ {sid}
  /\ windows' = {win \in windows : SessionOfWindow(win) # sid}
  /\ UNCHANGED poolVars
  /\ UNCHANGED codec
  /\ UNCHANGED <<pool, file, age, tmp, pc, want, tpc, timer, stopCh, susp, reclaimed>>
  /\ UNCHANGED <<procTable, handle, pane, answer>>

\* OS: the process of a pane or the child ends
OS_Exit(q) ==
  /\ q \in PanePids \cap procTable
  /\ procTable' = procTable \ {q}
  /\ UNCHANGED poolVars
  /\ UNCHANGED codec
  /\ UNCHANGED <<pool, file, age, tmp, pc, want, tpc, timer, stopCh, susp, reclaimed>>
  /\ UNCHANGED <<sessions, windows, handle, pane, answer>>

\* OS: the pid of an ended process is given to a new, unrelated process
OS_ReusePid(q) ==
  /\ q \in PanePids \ procTable
  /\ \E d \in Callers : pane[d] = q
  /\ procTable' = procTable \cup {q}
  /\ UNCHANGED poolVars
  /\ UNCHANGED codec
  /\ UNCHANGED <<pool, file, age, tmp, pc, want, tpc, timer, stopCh, susp, reclaimed>>
  /\ UNCHANGED <<sessions, windows, handle, pane, answer>>

MgrNext ==
  \/ \E c \in Callers : Status(c)
  \/ \E c \in Callers : AcquireWorktreeLock(c)
  \/ \E c \in Callers : PendingWorktree_NoLock(c)
  \/ \E c \in Callers : UnlockWorktree(c)
  \/ \E c \in Callers : runInTmux_Split(c)
  \/ \E c \in Callers : lockWorktreeForPane(c)
  \/ \E c \in Callers : runWithoutTmux_Start(c)
  \/ \E c \in Callers : runWithoutTmux_Lock(c)
  \/ \E c \in Callers : runWithoutTmux_Wait(c)
  \/ \E c \in Callers : run_ReleaseAgain(c)
  \/ \E c \in Callers : DeleteWorktree_Acquire(c)
  \/ \E c \in Callers : DeleteWorktree_Remove(c)
  \/ \E c \in Callers : returnToWTX(c)
  \/ \E c \in Callers : returnToWTX_Respawn(c)
  \/ \E sid \in SessionIDs : tmux_KillSession(sid)
  \/ \E q \in PanePids : OS_Exit(q)
  \/ \E q \in PanePids : OS_ReusePid(q)

MgrSpec == MgrInit /\ [][MgrNext]_vars

\* ------------------------------------------------------ the worktree pool
\* nextWorktreePath: for i := 1; i < 10000; i++ { os.Stat(candidate) ... };
\* the first candidate without a directory is returned, an error of os.Stat
\* other than ErrNotExist ends the scan, and after the last slot the answer
\* is "no available worktree path"
\* mutant: a scan that goes one slot past the limit
RECURSIVE scanSlots_PastLimit(_, _)
scanSlots_PastLimit(repoRoot, i) ==
  IF ~(i < SlotLimit + 1) THEN [err |-> "no available worktree path", path |-> <<>>]
  ELSE LET candidate == SlotPath(repoRoot, i) IN
       IF candidate \in denied THEN [err |-> "stat", path |-> <<>>]
       ELSE IF candidate \notin dirs THEN [err |-> "", path |-> candidate]
       ELSE scanSlots_PastLimit(repoRoot, i + 1)

RECURSIVE scanSlots(_, _)
scanSlots(repoRoot, i) ==
  IF ~(i < SlotLimit) THEN [err |-> "no available worktree path", path |-> <<>>]
  ELSE LET candidate == SlotPath(repoRoot, i) IN
       IF candidate \in denied THEN [err |-> "stat", path |-> <<>>]
       ELSE IF candidate \notin dirs THEN [err |-> "", path |-> candidate]
       ELSE scanSlots(repoRoot, i + 1)

\* mutant: a scan that takes the last free slot it finds
nextWorktreePath_Last(repoRoot) ==
  LET free == {i \in Slots : SlotPath(repoRoot, i) \notin dirs} IN
  IF denied # {} THEN [err |-> "stat", path |-> <<>>]
  ELSE IF free = {} THEN [err |-> "no available worktree path", path |-> <<>>]
  ELSE [err |-> "", path |-> SlotPath(repoRoot, CHOOSE i \in free : \A k \in free : k <= i)]

nextWorktreePath(repoRoot) == scanSlots(repoRoot, 1)

\* the pool starts with any set of worktrees, each with its directory, and
\* at most one path that os.Stat cannot read; the wtx processes are in the UI
PoolInit ==
  /\ dirs \in SUBSET Worktrees
  /\ pool = dirs
  /\ denied \in {{}} \cup {{w} : w \in Worktrees}
  /\ orphaned = {}
  /\ codec = NoCall
  /\ file = [w \in Worktrees |-> NoFile]
  /\ age = [w \in Worktrees |-> 0]
  /\ tmp = [w \in Worktrees |-> NoTmp]
  /\ pc = [p \in Procs |-> IF p \in Callers THEN "m_select" ELSE "exited"]
  /\ want = [p \in Procs |-> SlotPath(RepoRoot, 1)]
  /\ tpc = [p \in Procs |-> "off"]
  /\ timer = [p \in Procs |-> 0]
  /\ stopCh = [p \in Procs |-> FALSE]
  /\ susp = [p \in Procs |-> "never"]
  /\ reclaimed = [w \in Worktrees |-> FALSE]
  /\ sessions = SessionIDs
  /\ windows = WindowIDs
  /\ procTable = Callers
  /\ handle = [p \in Procs |-> NoLock]
  /\ pane = [p \in Procs |-> 0]
  /\ answer = [p \in Procs |-> "none"]

\* mutant: an allocation that makes the directory of the slot it returns
CreateWorktree_Next_Mkdir(c) ==
  /\ pc[c] = "m_select" /\ c \in procTable
  /\ \E ready \in BOOLEAN :
       LET r == nextWorktreePath(RepoRoot) IN
       IF ~ready
       THEN /\ answer' = [answer EXCEPT ![c] = "error"]
            /\ UNCHANGED <<pc, want, dirs>>
       ELSE IF r.err # ""
       THEN /\ answer' = [answer EXCEPT ![c] = r.err]
            /\ UNCHANGED <<pc, want, dirs>>
       ELSE /\ want' = [want EXCEPT ![c] = r.path]
            /\ answer' = [answer EXCEPT ![c] = "none"]
            /\ pc' = [pc EXCEPT ![c] = "cw_acquire"]
            /\ dirs' = dirs \cup {r.path}
  /\ UNCHANGED <<denied, orphaned>>
  /\ UNCHANGED codec
  /\ UNCHANGED <<pool, file, age, tmp, tpc, timer, stopCh, susp, reclaimed>>
  /\ UNCHANGED <<sessions, windows, procTable, handle, pane>>

\* CreateWorktree up to nextWorktreePath: an empty branch name, no git or no
\* repository (ready = FALSE) and an error of nextWorktreePath return at once
CreateWorktree_Next(c) ==
  /\ pc[c] = "m_select" /\ c \in procTable
  /\ \E ready \in BOOLEAN :
       LET r == nextWorktreePath(RepoRoot) IN
       IF ~ready
       THEN /\ answer' = [answer EXCEPT ![c] = "error"]
            /\ UNCHANGED <<pc, want>>
       ELSE IF r.err # ""
       THEN /\ answer' = [answer EXCEPT ![c] = r.err]
            /\ UNCHANGED <<pc, want>>
       ELSE /\ want' = [want EXCEPT ![c] = r.path]
            /\ answer' = [answer EXCEPT ![c] = "none"]
            /\ pc' = [pc EXCEPT ![c] = "cw_acquire"]
  /\ UNCHANGED poolVars
  /\ UNCHANGED codec
  /\ UNCHANGED <<pool, file, age, tmp, tpc, timer, stopCh, susp, reclaimed>>
  /\ UNCHANGED <<sessions, windows, procTable, handle, pane>>

\* CreateWorktree: m.lockMgr.Acquire(repoRoot, target); an error returns
CreateWorktree_Acquire(c) ==
  /\ pc[c] = "cw_acquire" /\ c \in procTable
  /\ LET r == Acquire(c, RepoRoot, want[c]) IN
     IF r.ok
     THEN /\ file' = r.file
          /\ handle' = [handle EXCEPT ![c] = r.lock]
          /\ pc' = [pc EXCEPT ![c] = "cw_base"]
          /\ UNCHANGED answer
     ELSE /\ answer' = [answer EXCEPT ![c] = "locked"]
          /\ pc' = [pc EXCEPT ![c] = "m_select"]
          /\ UNCHANGED <<file, handle>>
  /\ UNCHANGED poolVars
  /\ UNCHANGED codec
  /\ UNCHANGED <<pool, age, tmp, want, tpc, timer, stopCh, susp, reclaimed>>
  /\ UNCHANGED <<sessions, windows, procTable, pane>>

\* CreateWorktree: prepareBaseRefForCheckout; its error returns, and the
\* deferred lock.Release() runs
CreateWorktree_BaseRef(c) ==
  /\ pc[c] = "cw_base" /\ c \in procTable
  /\ \E ok \in BOOLEAN :
       IF ok
       THEN /\ pc' = [pc EXCEPT ![c] = "cw_add"]
            /\ UNCHANGED <<file, handle, answer>>
       ELSE /\ file' = ReleaseLock(handle[c])
            /\ handle' = [handle EXCEPT ![c] = NoLock]
            /\ answer' = [answer EXCEPT ![c] = "error"]
            /\ pc' = [pc EXCEPT ![c] = "m_select"]
  /\ UNCHANGED poolVars
  /\ UNCHANGED codec
  /\ UNCHANGED <<pool, age, tmp, want, tpc, timer, stopCh, susp, reclaimed>>
  /\ UNCHANGED <<sessions, windows, procTable, pane>>

\* mutant: a return after git worktree add that leaves the lock in place
CreateWorktree_Add_KeepLock(c) ==
  /\ pc[c] = "cw_add" /\ c \in procTable
  /\ \E ok \in BOOLEAN :
       IF ok /\ want[c] \notin dirs
       THEN /\ dirs' = dirs \cup {want[c]}
            /\ pool' = pool \cup {want[c]}
            /\ answer' = [answer EXCEPT ![c] = "created"]
       ELSE /\ answer' = [answer EXCEPT ![c] = "error"]
            /\ UNCHANGED <<dirs, pool>>
  /\ handle' = [handle EXCEPT ![c] = NoLock]
  /\ pc' = [pc EXCEPT ![c] = "m_select"]
  /\ UNCHANGED <<denied, orphaned, file>>
  /\ UNCHANGED codec
  /\ UNCHANGED <<age, tmp, want, tpc, timer, stopCh, susp, reclaimed>>
  /\ UNCHANGED <<sessions, windows, procTable, pane>>

\* CreateWorktree: git worktree add -b branch target baseRef, which fails
\* on an existing target (or for the branch, ok = FALSE) and else makes the
\* directory and lists the worktree; then CreateWorktree returns and the
\* deferred lock.Release() runs
CreateWorktree_Add(c) ==
  /\ pc[c] = "cw_add" /\ c \in procTable
  /\ \E ok \in BOOLEAN :
       IF ok /\ want[c] \notin dirs
       THEN /\ dirs' = dirs \cup {want[c]}
            /\ pool' = pool \cup {want[c]}
            /\ answer' = [answer EXCEPT ![c] = "created"]
       ELSE /\ answer' = [answer EXCEPT ![c] = "error"]
            /\ UNCHANGED <<dirs, pool>>
  /\ file' = ReleaseLock(handle[c])
  /\ handle' = [handle EXCEPT ![c] = NoLock]
  /\ pc' = [pc EXCEPT ![c] = "m_select"]
  /\ UNCHANGED <<denied, orphaned>>
  /\ UNCHANGED codec
  /\ UNCHANGED <<age, tmp, want, tpc, timer, stopCh, susp, reclaimed>>
  /\ UNCHANGED <<sessions, windows, procTable, pane>>

\* the user removes the directory of a worktree by hand; git still lists it
OS_RemoveDir(w) ==
  /\ w \in dirs
  /\ dirs' = dirs \ {w}
  /\ UNCHANGED <<denied, orphaned>>
  /\ UNCHANGED codec
  /\ UNCHANGED <<pool, file, age, tmp, pc, want, tpc, timer, stopCh, susp, reclaimed>>
  /\ UNCHANGED mgrVars

PoolNext ==
  \/ \E c \in Callers : CreateWorktree_Next(c)
  \/ \E c \in Callers : CreateWorktree_Acquire(c)
  \/ \E c \in Callers : CreateWorktree_BaseRef(c)
  \/ \E c \in Callers : CreateWorktree_Add(c)
  \/ \E c \in Callers : Status(c)
  \/ \E c \in Callers : UnlockWorktree(c)
  \/ \E w \in Worktrees : OS_RemoveDir(w)

PoolSpec == PoolInit /\ [][PoolNext]_vars

\* ========================================================================
\* Part four: the codec and the oracle alone.
\* ========================================================================
\* owner ids as they are found in lock records: the encodings, the strings
\* of the parser's test and further strings that do not decode
RawOwners ==
  {Encode(sid, win) : sid \in SessionIDs \cup {<<>>}, win \in WindowIDs \cup {<<>>}}
    \cup { <<>>, TmuxPrefix,
           <<"t", "e", "r", "m", "-", "s", "e", "s", "s", "i", "o", "n", ":", "a", "b", "c">>,
           <<"t", "m", "u", "x">>,
           <<"t", "m", "u", "x", ":", ":", "@", "2">>,
           <<"x", "t", "m", "u", "x", ":", "$", "1">> }

\* the pids the oracle is asked about: 0 for "no pid" and every pid of the model
Pids == 0 .. (NumProcs + NumPanes)

\* any process table and any set of tmux sessions, each with windows of its own
CodecInit ==
  /\ procTable \in SUBSET (Pids \ {0})
  /\ sessions \in SUBSET SessionIDs
  /\ windows \in SUBSET {win \in WindowIDs : SessionOfWindow(win) \in sessions}
  /\ codec = NoCall
  /\ pool = {SlotPath(RepoRoot, 1)}
  /\ dirs = {SlotPath(RepoRoot, 1)}
  /\ denied = {}
  /\ orphaned = {}
  /\ file = [w \in Worktrees |-> NoFile]
  /\ age = [w \in Worktrees |-> 0]
  /\ tmp = [w \in Worktrees |-> NoTmp]
  /\ pc = [p \in Procs |-> "exited"]
  /\ want = [p \in Procs |-> SlotPath(RepoRoot, 1)]
  /\ tpc = [p \in Procs |-> "off"]
  /\ timer = [p \in Procs |-> 0]
  /\ stopCh = [p \in Procs |-> FALSE]
  /\ susp = [p \in Procs |-> "never"]
  /\ reclaimed = [w \in Worktrees |-> FALSE]
  /\ handle = [p \in Procs |-> NoLock]
  /\ pane = [p \in Procs |-> 0]
  /\ answer = [p \in Procs |-> "none"]

codecFrame ==
  /\ UNCHANGED poolVars
  /\ UNCHANGED <<pool, file, age, tmp, pc, want, tpc, timer, stopCh, susp, reclaimed>>
  /\ UNCHANGED mgrVars

\* Encode for a tmux session, with or without window, or for no session
Codec_Encode ==
  /\ \E sid \in SessionIDs \cup {<<>>}, win \in WindowIDs \cup {<<>>} :
       codec' = [NoCall EXCEPT !.origin = "Encode", !.sessionID = sid,
                               !.windowID = win, !.ownerID = Encode(sid, win)]
  /\ codecFrame

\* an owner id is read from a lock record
Codec_Read ==
  /\ \E o \in RawOwners :
       codec' = [NoCall EXCEPT !.origin = "record", !.ownerID = o]
  /\ codecFrame

\* parseTmuxOwnerID of the owner id at hand
Codec_Parse ==
  /\ codec.origin # "none" /\ ~codec.parsed.done
  /\ LET t == parseTmuxOwnerID(codec.ownerID) IN
       codec' = [codec EXCEPT !.parsed = [done |-> TRUE, ok |-> t.ok,
                                          sessionID |-> t.sessionID,
                                          windowID |-> t.windowID]]
  /\ codecFrame

\* lockOwnerStillActive of the owner id at hand and a pid
Codec_IsOwnerActive ==
  /\ codec.origin # "none"
  /\ \E pid \in Pids :
       codec' = [codec EXCEPT !.pid = pid,
                   !.active = IF lockOwnerStillActive(codec.ownerID, pid)
                              THEN "yes" ELSE "no"]
  /\ codecFrame

CodecNext ==
  \/ Codec_Encode
  \/ Codec_Read
  \/ Codec_Parse
  \/ Codec_IsOwnerActive

CodecSpec == CodecInit /\ [][CodecNext]_vars

\* ========================================================================
\* Part five: the lock path.  Processes name the worktree they lock by
\* whatever path they were given: absolute, relative to the working
\* directory, or through a symbolic link.  lockWorktree is one step here (its
\* interleavings are part one's subject) and holders heartbeat on schedule,
\* so that no lock grows stale.
\* ========================================================================

\* the paths that name worktree w: its real path, the path relative to the
\* working directory, and the path through the symbolic link
SpellingsOf(w) ==
  {w, <<"..">> \o Tail(w), <<"home", "link", filepathBase(w)>>}

\* a path through a directory that does not exist
Unresolvable(w) == <<"home", "gone", filepathBase(w)>>

\* the paths that name the repository root
RepoSpellings == {RepoRoot, <<".">>}

PathInit ==
  /\ pool = {SlotPath(RepoRoot, 1), SlotPath(RepoRoot, 2)}
  /\ dirs = {SlotPath(RepoRoot, 1), SlotPath(RepoRoot, 2)}
  /\ file = [w \in Worktrees |-> NoFile]
  /\ age = [w \in Worktrees |-> 0]
  /\ tmp = [w \in Worktrees |-> NoTmp]
  /\ pc = [p \in Procs |-> IF p \in Callers THEN "p_idle" ELSE "exited"]
  /\ want = [p \in Procs |-> SlotPath(RepoRoot, 1)]
  /\ tpc = [p \in Procs |-> "off"]
  /\ timer = [p \in Procs |-> 0]
  /\ stopCh = [p \in Procs |-> FALSE]
  /\ susp = [p \in Procs |-> "never"]
  /\ reclaimed = [w \in Worktrees |-> FALSE]
  /\ sessions = SessionIDs
  /\ windows = WindowIDs
  /\ procTable = Callers
  /\ handle = [p \in Procs |-> NoLock]
  /\ pane = [p \in Procs |-> 0]
  /\ answer = [p \in Procs |-> "none"]
  /\ denied = {}
  /\ orphaned = {}
  /\ codec = NoCall

\* lockWorktree(repoRoot, wt) as one step: worktreeLockPath (an error ends
\* the call), the exclusive create (an error other than ErrExist ends the
\* call), on ErrExist the stat ("worktree locked" for a fresh file) and the
\* overwrite of a stale file; newWorktreeLock keeps the lock path and the
\* worktree path as given
Path_lockWorktree(c) ==
  /\ pc[c] = "p_idle"
  /\ \E w \in pool : \E s \in SpellingsOf(w) \cup {Unresolvable(w)} :
     \E r \in RepoSpellings :
       LET lockPath == worktreeLockPath(r, s)
           mine == [exists |-> TRUE, ino |-> c, wr |-> {},
                    data |-> lockPayload(c, r, s)]
       IN /\ want' = [want EXCEPT ![c] = s]
          /\ IF lockPath = <<>> \/ lockPath \in denied
             THEN /\ answer' = [answer EXCEPT ![c] = "error"]
                  /\ UNCHANGED <<file, age, handle, pc>>
             ELSE IF ~file[lockPath].exists \/ ~Fresh(lockPath)
             THEN /\ file' = [file EXCEPT ![lockPath] = mine]
                  /\ age' = [age EXCEPT ![lockPath] = 0]
                  /\ handle' = [handle EXCEPT ![c] =
                        [Path |-> lockPath, WorktreePath |-> s, RepoRoot |-> r]]
                  /\ pc' = [pc EXCEPT ![c] = "p_held"]
                  /\ answer' = [answer EXCEPT ![c] = "locked"]
             ELSE /\ answer' = [answer EXCEPT ![c] = "worktree locked"]
                  /\ UNCHANGED <<file, age, handle, pc>>
  /\ UNCHANGED poolVars
  /\ UNCHANGED codec
  /\ UNCHANGED <<pool, tmp, tpc, timer, stopCh, susp, reclaimed>>
  /\ UNCHANGED <<sessions, windows, procTable, pane>>

\* lock.Release() at the end of run: _ = os.Remove(l.Path); Release has no
\* result, so run goes on in the same way when the file could not be removed
Path_Release(c) ==
  /\ pc[c] = "p_held"
  /\ IF handle[c].Path \in denied
     THEN UNCHANGED <<file, age>>
     ELSE /\ file' = [file EXCEPT ![handle[c].Path] = NoFile]
          /\ age' = [age EXCEPT ![handle[c].Path] = 0]
  /\ pc' = [pc EXCEPT ![c] = "p_done"]
  /\ UNCHANGED poolVars
  /\ UNCHANGED codec
  /\ UNCHANGED <<pool, tmp, want, tpc, timer, stopCh, susp, reclaimed>>
  /\ UNCHANGED mgrVars

\* the environment: the permissions of a lock path change, and the calls of
\* the file system on it fail from then on
OS_Chmod(w) ==
  /\ w \notin denied
  /\ denied' = denied \cup {w}
  /\ UNCHANGED <<dirs, orphaned>>
  /\ UNCHANGED codec
  /\ UNCHANGED <<pool, file, age, tmp, pc, want, tpc, timer, stopCh, susp, reclaimed>>
  /\ UNCHANGED mgrVars

PathNext ==
  \/ \E c \in Callers :
       \/ Path_lockWorktree(c)
       \/ Path_Release(c)
  \/ \E w \in pool : OS_Chmod(w)

PathSpec == PathInit /\ [][PathNext]_vars

\* ------------------------------------------------------------------------
\* The toucher goroutine runs whenever it can: a received tick is followed by
\* its Chtimes, and select takes the stopCh case once it stays ready.
Fairness ==
  \A p \in Procs : WF_vars(Toucher_Chtimes(p)) /\ WF_vars(Toucher_Stop(p))

FairSpec == Init /\ [][Next]_vars /\ Fairness

\* the heartbeat of p has arrived on schedule ever since it took the lock
OnSchedule(p) == Holds(p) /\ susp[p] = "never"

\* the process whose pid the lock record of w names holds w and is alive
RecordedHolderAlive(w) ==
  /\ file[w].exists
  /\ file[w].data.pid \in Procs
  /\ Holds(file[w].data.pid) /\ want[file[w].data.pid] = w

\* C1 (as claimed): in every reachable state at most one live process
\* considers itself the holder of a worktree's lock.
C1_AtMostOneHolder ==
  \A w \in Worktrees : Cardinality(Holders(w)) <= 1

\* C2 (as claimed): while a first caller that took the lock is live, has
\* not released and heartbeats on schedule, every step of a second caller's
\* Acquire fails (ErrExist from the create, then "worktree locked" from the
\* stat), leaves the lock file as it is and the first caller the holder.
C2_SecondAcquireLocked ==
  [][\A c, h \in Procs :
       LET w == want[c] IN
       ( /\ c # h /\ want[h] = w
         /\ pc[h] = "holding" /\ susp[h] = "never"
         /\ pc[c] \in {"lw_create", "lw_stat"} /\ pc'[c] # pc[c] )
       => /\ pc'[c] = (IF pc[c] = "lw_create" THEN "lw_stat" ELSE "start")
          /\ file'[w] = file[w]
          /\ Holds(h)']_vars

\* C3: the exclusive create succeeds exactly when no lock file is present; on
\* a present file it reports ErrExist and leaves content and mtime untouched,
\* so of several processes that race for an absent file only the first creates.
C3_ExclusiveCreate ==
  [][\A p \in Procs :
       (pc[p] = "lw_create" /\ pc'[p] # "lw_create") =>
         LET w == want[p] IN
         IF file[w].exists
         THEN pc'[p] = "lw_stat" /\ file'[w] = file[w] /\ age'[w] = age[w]
         ELSE /\ pc'[p] = "lw_write"
              /\ file'[w].exists /\ file'[w].ino = p
              /\ \A q \in Procs \ {p} : pc'[q] = pc[q]]_vars

C3_Witness ==
  \E p, q \in Procs :
    /\ p # q /\ want[p] = want[q]
    /\ pc[p] = "lw_write" /\ file[want[p]].ino = p /\ file[want[p]].data = Empty
    /\ pc[q] = "lw_stat"

\* C4 (as claimed): when the lock file names an owner that is not alive,
\* Acquire by a new caller goes on to take the lock over, and the record it
\* installs names the new caller.
C4_DeadOwnerReclaimed ==
  [][\A c \in Procs :
       LET w == want[c] IN
       /\ ( /\ pc[c] = "lw_stat" /\ pc'[c] # "lw_stat"
            /\ file[w].exists /\ file[w].data.pid \in Procs /\ ~Alive(file[w].data.pid) )
          => pc'[c] = "lw_tmp"
       /\ (pc[c] = "lw_rename" /\ pc'[c] = "locked") => file'[w].data.pid = c]_vars

\* C6 (as claimed): neither the takeover decision of Acquire nor a positive
\* availability answer is ever made for a lock whose holder is alive.
C6_AliveHolderNeverStale ==
  [][\A c \in Procs :
       /\ (pc[c] = "lw_stat" /\ pc'[c] = "lw_tmp") => ~RecordedHolderAlive(want[c])
       /\ (pc[c] = "start" /\ pc'[c] = "prompt") => ~RecordedHolderAlive(want'[c])]_vars

\* C7: while the holder's heartbeat arrives every TouchEvery time units, a
\* lock file at the path is never older than TouchEvery, hence never stale
\* under the StaleAfter threshold: it is not reported available, and a
\* challenger's stat does not go on to the takeover.
C7_HeartbeatKeepsFresh ==
  \A p \in Procs :
    (OnSchedule(p) /\ file[want[p]].exists) =>
       /\ age[want[p]] <= TouchEvery
       /\ Fresh(want[p])
       /\ ~isWorktreeAvailable(want[p])

C7_Witness ==
  \E p, q \in Procs :
    /\ p # q /\ want[p] = want[q]
    /\ pc[p] = "holding" /\ susp[p] = "never" /\ tpc[p] = "touch"
    /\ file[want[p]].exists /\ age[want[p]] = TouchEvery
    /\ pc[q] = "lw_stat"

\* C8 (as claimed): the toucher never calls Chtimes on the lock path once its
\* process has run Release.
C8_NoTouchAfterRelease ==
  [][\A p \in Procs :
       (tpc[p] = "touch" /\ tpc'[p] = "wait") => pc[p] # "released"]_vars

\* C9: once the stop has been requested the toucher goroutine ends (it
\* returns, or goes with its process), and requesting the stop again changes
\* nothing.
C9_ToucherStops ==
  /\ \A p \in Procs : (pc[p] = "stopped") ~> (tpc[p] \in {"done", "killed"})
  /\ [][\A p \in Procs : (pc[p] = "stopped" /\ pc'[p] = "stopped") =>
          (stopCh'[p] = stopCh[p] /\ stopCh[p])]_vars

C9_Witness ==
  \E p \in Procs : pc[p] = "stopped" /\ stopCh[p] /\ tpc[p] = "done"

TypeOK ==
  /\ pool \subseteq Worktrees
  /\ \A w \in Worktrees : age[w] \in 0..StaleAfter
  /\ \A p \in Procs : timer[p] \in 0..TouchEvery /\ want[p] \in Worktrees

\* ------------------------------------------------------------------------
\* Owner ids the oracle is probed with: every encoding of a session with or
\* without a window, the fallback, and the strings that do not decode
OwnerProbe ==
  {Encode(sid, win) : sid \in SessionIDs \cup {<<>>}, win \in WindowIDs \cup {<<>>}}
    \cup {<<>>, TmuxPrefix, <<"t", "e", "r", "m", "-", "s", ":", "a">>}

PidProbe == 0 .. (NumProcs + NumPanes)

\* the probed owner ids that decode, with the session each names
ProbeSession ==
  [o \in {x \in OwnerProbe : parseTmuxOwnerID(x).ok} |-> parseTmuxOwnerID(o).sessionID]

SessionGone(ownerID) ==
  parseTmuxOwnerID(ownerID).ok /\ parseTmuxOwnerID(ownerID).sessionID \notin sessions

\* C5: the oracle answers "inactive" for every owner id that decodes to a
\* tmux session the multiplexer no longer has, whatever the pid, a pid of a
\* running (reused) process included; and the availability answer Status
\* computes for a lock with such an owner is "available".
C5_SessionGoneInactive ==
  /\ [](\A o \in DOMAIN ProbeSession :
          ProbeSession[o] \notin sessions
            => \A pid \in PidProbe : ~lockOwnerStillActive(o, pid))
  /\ [][\A c \in Callers :
          (answer'[c] \in {"available", "in use"}
             /\ <<answer'[c], want'[c]>> # <<answer[c], want[c]>>
             /\ want'[c] \in dirs
             /\ file[want'[c]].exists
             /\ SessionGone(file[want'[c]].data.owner))
            => answer'[c] = "available"]_vars

\* C5 witness: a worktree was reported available although the pid in its lock
\* record is running, because the record's session is gone
C5_Witness ==
  \E c \in Callers :
    /\ answer[c] = "available"
    /\ file[want[c]].exists
    /\ SessionGone(file[want[c]].data.owner)
    /\ file[want[c]].data.pid \in procTable
    /\ file[want[c]].data.pid \in PanePids

\* IsAvailable of the worktree the handle of c names
AvailableByHandle(c) == IsAvailable(handle[c].RepoRoot, handle[c].WorktreePath)

\* the oracle's verdict on the process c started, with the recorded owner
NewOwnerActive(c) == lockOwnerStillActive(file[handle[c].Path].data.owner, pane[c])

Rebinding(c) ==
  /\ pc[c] \in {"m_pane", "m_child"}
  /\ handle[c] # NoLock
  /\ pc'[c] \in {"m_done", "m_wait"}

\* C10: a rebind leaves the lock handle (path, worktree, repository) and
\* every other lock file as they were; the record at the path exists after
\* it with pid = the new pid, the same worktree_path and repo_root, and an
\* owner that differs from the one before in the window component at most;
\* and IsAvailable right after it is the oracle's verdict on the new pid with
\* that owner: "held" when the record was still the one c had written and
\* the new process runs at the time of the rebind.
C10_RebindFrame ==
  [][\A c \in Callers : Rebinding(c) =>
       LET lock == handle[c]
           before == file[lock.Path].data
           after == file'[lock.Path].data
       IN /\ handle'[c] = lock
          /\ \A w \in Worktrees : w # lock.Path => file'[w] = file[w]
          /\ file'[lock.Path].exists
          /\ after.pid = pane[c]
          /\ after.worktree_path = lock.WorktreePath
          /\ after.repo_root = lock.RepoRoot
          /\ file[lock.Path].exists =>
               /\ after.worktree_path = before.worktree_path
               /\ after.repo_root = before.repo_root
               /\ parseTmuxOwnerID(after.owner).ok = parseTmuxOwnerID(before.owner).ok
               /\ parseTmuxOwnerID(after.owner).sessionID
                    = parseTmuxOwnerID(before.owner).sessionID
               /\ ~parseTmuxOwnerID(before.owner).ok => after.owner = before.owner
          /\ AvailableByHandle(c)' = ~NewOwnerActive(c)'
          /\ (file[lock.Path].exists /\ file[lock.Path].ino = c /\ pane[c] \in procTable)
               => ~AvailableByHandle(c)'
     ]_vars

\* C10 witness: a lock taken on selection by a wtx inside tmux is bound to
\* the pane's process, in a window other than the one it was taken in, and
\* another wtx has been told the worktree is not available
C10_Witness ==
  \E c, d \in Callers :
    /\ c # d
    /\ pc[c] = "m_done" /\ handle[c] # NoLock
    /\ file[handle[c].Path].exists
    /\ file[handle[c].Path].data.pid = pane[c]
    /\ pane[c] \in procTable
    /\ parseTmuxOwnerID(file[handle[c].Path].data.owner).windowID
         \notin {<<>>, TmuxOf(c).windowID}
    /\ want[d] = handle[c].WorktreePath /\ answer[d] = "in use"
    /\ ~IsAvailable(RepoRoot, handle[c].WorktreePath)

\* a wtx process between its selection (lock taken) and the rebind
AwaitingRebind(c) == pc[c] \in {"m_run", "m_pane", "m_child"} /\ handle[c] # NoLock

\* C11 (as claimed): ownership is continuous from the selection to the
\* rebind.  The selecting process writes nothing between the two, so a lock
\* file that was absent, or a lock that a challenger could take, at any state
\* in between shows at the rebind: the record is then no longer the one the
\* process wrote, or it is available.
C11_ContinuousOwnership ==
  [][\A c \in Callers : Rebinding(c) =>
       /\ file[handle[c].Path].exists
       /\ file[handle[c].Path].ino = c
       /\ ~AvailableByHandle(c)]_vars

\* C11 (amended): the steps of the selecting process itself, from the
\* selection to the rebind, never remove the lock file and never make the
\* lock available: a lock file that is there and held before the split, the
\* start of the child or the rebind to a running process is there and held
\* after it.  (ForceUnlock, a Release by another process and the end of the
\* owner's tmux session can still open a gap.)
C11_OwnStepsKeepLock ==
  [][\A c \in Callers :
       ( /\ AwaitingRebind(c) /\ pc'[c] \notin {pc[c], "m_failed"}
         /\ file[handle[c].Path].exists /\ ~AvailableByHandle(c)
         /\ (Rebinding(c) => pane[c] \in procTable) )
       => /\ handle'[c] = handle[c]
          /\ file'[handle[c].Path].exists
          /\ ~AvailableByHandle(c)']_vars

\* C11 witness: the pane has been split off, the lock file is still the one
\* the selecting process wrote, and a challenger has been told "in use"
C11_Witness ==
  \E c, d \in Callers :
    /\ c # d /\ pc[c] = "m_pane" /\ handle[c] # NoLock
    /\ file[handle[c].Path].exists /\ file[handle[c].Path].ino = c
    /\ file[handle[c].Path].data.pid = c
    /\ pane[c] \in procTable
    /\ pc[d] = "m_select" /\ want[d] = handle[c].WorktreePath /\ answer[d] = "in use"

\* C12 (as claimed): the availability check answers false for every lock
\* whose owner is alive: a worktree whose lock file records a live holder is
\* never available, so "available" means no lock file or an owner that is gone.
C12_LiveOwnerNeverAvailable ==
  \A w \in pool : RecordedHolderAlive(w) => ~isWorktreeAvailable(w)

\* C13: the availability check of the listing changes nothing of the lock
\* state: every lock file, its content, its modification time and the
\* temporary files are the same after the check as before, whatever it answers.
C13_CheckLeavesLockState ==
  [][\A p \in Procs :
       (pc[p] = "start" /\ pc'[p] = "prompt")
         => /\ file' = file
            /\ age' = age
            /\ tmp' = tmp]_vars

\* a stale lock file has been found available by the check and is still there
C13_Witness ==
  \E p \in Procs :
    /\ pc[p] = "prompt"
    /\ file[want[p]].exists
    /\ ~Fresh(want[p])
    /\ isWorktreeAvailable(want[p])

\* the worktree of caller c's last request has no lock file and is available
UnlockedFree(c) ==
  /\ ~file[worktreeLockPath(RepoRoot, want[c])].exists
  /\ IsAvailable(RepoRoot, want[c])

\* C14: UnlockWorktree removes the lock file of the worktree whoever owns it
\* and whether the owner is active or not, and right after it IsAvailable
\* answers true for that worktree.
C14_ForceUnlockFrees ==
  [][\A c \in Callers :
       ( /\ answer'[c] = "unlocked"
         /\ <<answer'[c], want'[c]>> # <<answer[c], want[c]>> )
       => UnlockedFree(c)']_vars

\* a lock whose owner is active has been removed by another caller's unlock
C14_Witness ==
  \E c, d \in Callers :
    /\ c # d
    /\ answer[c] = "unlocked"
    /\ UnlockedFree(c)
    /\ handle[d] # NoLock
    /\ handle[d].WorktreePath = want[c]
    /\ pc[d] = "m_run"
    /\ d \in procTable

\* ------------------------------------------------------------------------
\* caller c has acquired the lock of its target and not yet returned
Creating(c) == pc[c] \in {"cw_base", "cw_add"}

\* C15: CreateWorktree invokes git worktree add only after Acquire of the
\* slot has succeeded: a failed Acquire returns with no directory made and no
\* worktree added, and git worktree add is reached only with the lock handle.
\* Every return after the Acquire, with or without an error, has released the
\* lock: no lock file remains at its path.
C15_LockAroundCreate ==
  [][\A c \in Callers :
       /\ (pc[c] = "cw_acquire" /\ pc'[c] # "cw_acquire" /\ handle'[c] = NoLock)
            => /\ pc'[c] = "m_select"
               /\ dirs' = dirs
               /\ pool' = pool
       /\ (pc'[c] = "cw_add") => handle'[c] # NoLock
       /\ (Creating(c) /\ pc'[c] = "m_select")
            => /\ ~file'[handle[c].Path].exists
               /\ handle'[c] = NoLock]_vars

\* the worktree has been created under the lock and the lock is gone, and
\* the other caller's Acquire for the same slot had failed
C15_Witness ==
  \E c, d \in Callers :
    /\ c # d
    /\ pc[c] = "m_select" /\ answer[c] = "created"
    /\ want[c] \in dirs
    /\ ~file[worktreeLockPath(RepoRoot, want[c])].exists
    /\ pc[d] = "m_select" /\ answer[d] = "locked" /\ want[d] = want[c]

\* C16 (as claimed): a CreateWorktree that loses the race for its slot, by a
\* failed Acquire or by git worktree add finding the target in place, does
\* not return an error to the UI: it goes on with the next slot.
C16_LoserRetries ==
  [][\A c \in Callers :
       ( /\ pc[c] \in {"cw_acquire", "cw_add"}
         /\ pc'[c] = "m_select"
         /\ \/ pc[c] = "cw_acquire"
            \/ want[c] \in dirs )
       => answer'[c] \notin {"locked", "error"}]_vars

\* the path expected of slot n for the repository root /home/repo
ExpectedSlot(n) == <<"home", "repo.wt", "wt." \o ToString(n)>>

\* C17: nextWorktreePath returns <parent>/<base>.wt/wt.N for the smallest
\* N >= 1 at which no directory exists, whether the existing ones lie below
\* it in a row or leave gaps above it.
C17_SmallestFreeSlot ==
  [][\A c \in Callers :
       (pc[c] = "m_select" /\ pc'[c] = "cw_acquire")
       => \E n \in Slots :
            /\ want'[c] = ExpectedSlot(n)
            /\ ExpectedSlot(n) \notin dirs
            /\ \A k \in 1..(n - 1) : ExpectedSlot(k) \in dirs]_vars

\* slot 2 has been returned while slot 1 exists and slot 3 exists too
C17_Witness ==
  \E c \in Callers :
    /\ pc[c] = "cw_acquire"
    /\ want[c] = ExpectedSlot(2)
    /\ ExpectedSlot(1) \in dirs
    /\ ExpectedSlot(2) \notin dirs
    /\ ExpectedSlot(3) \in dirs

\* C18: nextWorktreePath creates no directory and reserves nothing: the
\* directories, the listed worktrees and the lock files are the same after
\* the call as before, whatever it returns, so that a second caller can be
\* given the very same path.
C18_NextSlotReservesNothing ==
  [][\A c \in Callers :
       ( /\ pc[c] = "m_select"
         /\ \/ pc'[c] = "cw_acquire"
            \/ (answer'[c] \in {"stat", "no available worktree path"}
                  /\ answer'[c] # answer[c]) )
       => /\ dirs' = dirs
          /\ pool' = pool
          /\ file' = file]_vars

\* two callers have been given the same free slot
C18_Witness ==
  \E c, d \in Callers :
    /\ c # d
    /\ pc[c] = "cw_acquire" /\ pc[d] = "cw_acquire"
    /\ want[c] = want[d]
    /\ want[c] \notin dirs
    /\ ~file[worktreeLockPath(RepoRoot, want[c])].exists

\* C19: the scan of nextWorktreePath ends at the limit: a path it returns
\* is one of the slots below the limit, and it answers "no available worktree
\* path", returning to the caller, exactly when a directory exists at every
\* slot below the limit.
C19_ScanBounded ==
  [][\A c \in Callers :
       /\ (pc[c] = "m_select" /\ pc'[c] = "cw_acquire")
            => /\ \E n \in 1..(SlotLimit - 1) : want'[c] = ExpectedSlot(n)
               /\ \E n \in 1..(SlotLimit - 1) : ExpectedSlot(n) \notin dirs
       /\ (answer'[c] = "no available worktree path" /\ answer'[c] # answer[c])
            => /\ \A n \in 1..(SlotLimit - 1) : ExpectedSlot(n) \in dirs
               /\ pc'[c] = "m_select"
               /\ want'[c] = want[c]]_vars

\* the pool is exhausted and a caller has been told so
C19_Witness ==
  \E c \in Callers :
    /\ pc[c] = "m_select"
    /\ answer[c] = "no available worktree path"
    /\ \A n \in 1..(SlotLimit - 1) : ExpectedSlot(n) \in dirs

NamedBy(path) == {w \in pool : path \in SpellingsOf(w)}

\* C29: every path that names a worktree (real, relative, through a symbolic
\* link), with every path that names the repository root, gives the same lock
\* path, and processes that lock one worktree by different paths contend for
\* one lock: no two of them hold it at the same time.
C29_SpellingsShareLock ==
  /\ \A w \in pool : \A s1, s2 \in SpellingsOf(w) : \A r1, r2 \in RepoSpellings :
       /\ worktreeLockPath(r1, s1) # <<>>
       /\ worktreeLockPath(r1, s1) = worktreeLockPath(r2, s2)
  /\ \A c, d \in Callers :
       (c # d /\ pc[c] = "p_held" /\ pc[d] = "p_held")
       => /\ NamedBy(handle[c].WorktreePath) \cap NamedBy(handle[d].WorktreePath) = {}
          /\ handle[c].Path # handle[d].Path

\* a process holds the lock of a worktree it named by one path, and another
\* process that named the same worktree by a different path was refused
C29_Witness ==
  \E c, d \in Callers :
    /\ c # d /\ pc[c] = "p_held" /\ pc[d] = "p_idle"
    /\ answer[d] = "worktree locked"
    /\ want[d] # handle[c].WorktreePath
    /\ NamedBy(want[d]) \cap NamedBy(handle[c].WorktreePath) # {}

\* C30 (as claimed): a call whose file system step fails (the lock path does
\* not resolve, or the create or the delete is refused) reports an error to
\* its caller.
C30_ErrorsReported ==
  [][\A c \in Callers :
       /\ ( /\ pc[c] = "p_idle"
            /\ <<want'[c], answer'[c], pc'[c]>> # <<want[c], answer[c], pc[c]>>
            /\ \/ worktreeLockPath(RepoRoot, want'[c]) = <<>>
               \/ worktreeLockPath(RepoRoot, want'[c]) \in denied )
          => answer'[c] = "error"
       /\ ( /\ pc[c] = "p_held" /\ pc'[c] # "p_held"
            /\ handle[c].Path \in denied )
          => answer'[c] = "error"]_vars

\* the pane of c can be resolved to a pid: tmux runs and the pane's process
\* is there
PaneResolves(c) == pane[c] \in procTable /\ TmuxOf(c).sessionID \in sessions

C32_UnlockBeforeRespawn ==
  [][\A c \in Callers :
       /\ (pc'[c] = "r_respawned" /\ pc[c] # "r_respawned")
            => pc[c] \in {"r_unlocked", "r_unlockerr"}
       /\ (pc[c] = "m_done" /\ pc'[c] = "r_unlocked")
            => /\ ~file'[handle[c].Path].exists
               /\ procTable' = procTable
       /\ (pc[c] = "m_done" /\ pc'[c] = "r_failed")
            => /\ answer'[c] = "missing path"
               /\ file' = file /\ procTable' = procTable
       /\ (pc[c] = "r_unlockerr" /\ pc'[c] # pc[c] /\ TmuxOf(c).sessionID \in sessions)
            => /\ pc'[c] = "r_respawned"
               /\ pane[c] \notin procTable']_vars

\* the pane has been respawned although the force-unlock had failed: the
\* lock record of the pane's process is still there
C32_Witness ==
  \E c \in Callers :
    /\ pc[c] = "r_respawned"
    /\ pane[c] \notin procTable
    /\ file[handle[c].Path].exists
    /\ file[handle[c].Path].data.pid = pane[c]

\* the lock file of the worktree of p records another process, which holds
\* the lock and is alive
OwnedByOther(p) ==
  /\ RecordedHolderAlive(want[p])
  /\ file[want[p]].data.pid # p

\* C33 (as claimed): the heartbeat of a process never refreshes, and its
\* Release never deletes, a lock file that records another live holder.
C33_OnlyOwnerModifies ==
  [][\A p \in Procs :
       /\ (tpc[p] = "touch" /\ tpc'[p] = "wait" /\ OwnedByOther(p))
            => age'[want[p]] = age[want[p]]
       /\ (pc[p] = "stopped" /\ pc'[p] = "released" /\ OwnedByOther(p))
            => file'[want[p]] = file[want[p]]]_vars

\* the lock file of w has been created exclusively by a process that has not
\* yet written its payload
InCreateWindow(w) ==
  /\ file[w].exists /\ file[w].data = Empty
  /\ \E p \in Procs : pc[p] = "lw_write" /\ want[p] = w /\ file[w].ino = p

C35_ReclaimSuccessIsOwner ==
  [][\A p \in Procs :
       (pc[p] = "lw_rename" /\ pc'[p] = "locked")
       => /\ file'[want[p]].exists
          /\ file'[want[p]].data = lockPayload(p, RepoRoot, want[p])]_vars

\* the record at the lock path of the worktree c selected
LockRecord(c) == file[worktreeLockPath(RepoRoot, want[c])]

\* C36 (as claimed): without tmux, whenever the command that c started runs
\* in the worktree, the lock of the worktree is there and is bound to the pid
\* of that command or, until the rebind, to the wtx process that took it on
\* selection; it is never missing or bound to a different owner.
C36_CommandRunsUnderLock ==
  \A c \in Callers :
    (pc[c] = "m_child" /\ pane[c] \in procTable)
    => /\ LockRecord(c).exists
       /\ LockRecord(c).data.pid \in {c, pane[c]}
       /\ LockRecord(c).data.pid = c => handle[c] # NoLock

\* C37 (as claimed): when the rebind or the acquire for the process of a new
\* pane, or of a child, returns an error, that process is no longer running
\* when run fails.
C37_FailedLockEndsCommand ==
  [][\A c \in Callers :
       /\ (pc[c] = "m_pane" /\ pc'[c] = "m_failed" /\ PaneResolves(c))
            => pane[c] \notin procTable'
       /\ (pc[c] = "m_child" /\ pc'[c] = "m_failed")
            => pane[c] \notin procTable']_vars

\* C38: a wtx process whose run has returned an error (the split failed, the
\* lock for the pane or the child failed, or the command failed) has left no
\* lock file behind: no lock file is one that it wrote.
C38_NoLockLeakOnFailure ==
  \A c \in Callers :
    pc[c] \in {"m_failed", "m_released"}
    => \A w \in Worktrees : ~(file[w].exists /\ file[w].ino = c)

\* a run has failed after its pane or child was started; its worktree, which
\* another wtx had been shown as in use, has no lock file any more
C38_Witness ==
  \E c, d \in Callers :
    /\ c # d /\ pc[c] = "m_failed" /\ pane[c] \in PanePids
    /\ ~LockRecord(c).exists
    /\ want[d] = want[c] /\ answer[d] = "in use" /\ pc[d] = "m_select"

\* the lock record of worktree w names an owner that is active and is not
\* the record that c wrote
HeldByOther(c, w) ==
  /\ file[worktreeLockPath(RepoRoot, w)].exists
  /\ file[worktreeLockPath(RepoRoot, w)].ino # c
  /\ ~IsAvailable(RepoRoot, w)

\* C39 (as claimed): at no step in which DeleteWorktree removes a worktree
\* is the lock of that worktree held by a live owner other than the deleting
\* process.
C39_NeverRemovesLocked ==
  [][\A c \in Callers :
       (pc[c] = "dw_remove" /\ pool' # pool) => ~HeldByOther(c, want[c])]_vars

\* C39 (amended): a worktree leaves the listing only in the git step of a
\* DeleteWorktree that has acquired the lock of that worktree before; the
\* acquire succeeds only on a worktree no live owner holds, and when it
\* fails DeleteWorktree returns its error and nothing is removed; and after
\* the git step, succeeded or failed, no lock file is left at the lock path.
C39_DeleteUnderLock ==
  [][/\ pool' # pool =>
          \E c \in Callers : /\ pc[c] = "dw_remove" /\ pc'[c] = "m_select"
                               /\ pool' = pool \ {want[c]}
     /\ \A c \in Callers :
          /\ (pc[c] = "m_select" /\ pc'[c] = "dw_remove")
               => /\ IsAvailable(RepoRoot, want'[c])
                  /\ file'[handle'[c].Path].exists
                  /\ file'[handle'[c].Path].ino = c
                  /\ pool' = pool /\ dirs' = dirs
          /\ (pc[c] = "m_select" /\ answer'[c] = "locked" /\ answer[c] # "locked")
               => /\ ~IsAvailable(RepoRoot, want'[c])
                  /\ pc'[c] = "m_select"
                  /\ pool' = pool /\ dirs' = dirs /\ file' = file
          /\ (pc[c] = "dw_remove" /\ pc'[c] # "dw_remove")
               => ~file'[handle[c].Path].exists]_vars

\* a DeleteWorktree was refused with the lock held by a live owner, and
\* another one has removed its worktree and released the lock
C39_Witness ==
  \E c, d \in Callers :
    /\ c # d
    /\ answer[c] = "deleted" /\ pc[c] = "m_select" /\ want[c] \notin pool
    /\ ~file[worktreeLockPath(RepoRoot, want[c])].exists
    /\ answer[d] = "locked"

====
